---- MODULE Spec2Model ----
(***************************************************************************)
(* Authentication and session-security engine of kokoru-garden-api:        *)
(* AuthService (auth.service.ts), TokenService and RateLimiterService      *)
(* (token.service.ts), OAuthService (oauth.service.ts), UserRepository     *)
(* (user.repository.ts) and AuthMiddleware (auth.middleware.ts).           *)
(*                                                                         *)
(* Time is counted in seconds.  Every request handler is one action: the   *)
(* handlers await their store round trips one after the other and this     *)
(* specification runs one request at a time.                               *)
(***************************************************************************)
EXTENDS Integers, Sequences, FiniteSets, TLC

\* ------------------------------------------------------------------------
\* Program constants (seconds)
\* ------------------------------------------------------------------------
MAX_LOGIN_ATTEMPTS == 5
LOGIN_WINDOW == 900
EMAIL_RESEND_DELAY == 60
VERIFICATION_EXPIRY == 86400
RESET_EXPIRY == 3600
ACCESS_EXPIRY == 900
REFRESH_EXPIRY == 604800

\* ------------------------------------------------------------------------
\* Bounds of the model
\* ------------------------------------------------------------------------
MaxRand == 2          \* calls of generateRandomToken
MaxIssue == 2         \* calls of generateTokens (token pairs issued)
MaxTicks == 1         \* clock advances
MaxFailed == 5        \* cap of the persisted loginAttempts column
MaxRecorded == 6      \* cap of the login_attempts:<id> counter
MaxWrong == 1         \* cap of loginAttempts where lockout is not the subject
MaxDelay == 2         \* longest run of a token lookup and its security delay
MaxFree == 2          \* bytes of a random buffer drawn independently
MaxRequests == 2      \* requests in flight together
MaxExchanged == 3     \* token pairs issued while refreshes are in flight together

\* ------------------------------------------------------------------------
\* Inputs
\* ------------------------------------------------------------------------
EmailInputs == {"a@x.co", "A@X.co", "b@x.co", "not-an-email"}
Passwords == {"p1", "p2"}
UserIds == 1..2

NoTime == -1          \* a NULL timestamp column / a key without TTL

\* String.prototype.toLowerCase on the inputs above
ToLowerCase(e) ==
  IF e = "A@X.co" THEN "a@x.co" ELSE e

\* the e-mail regex of validateEmail on the inputs above
EmailRegexTest(e) == e \in {"a@x.co", "A@X.co", "b@x.co"}

\* validateEmail without the toLowerCase
validateEmail_CaseSensitive(email) ==
  IF EmailRegexTest(email) THEN email ELSE ""

\* UserRepository.validateEmail: lower-cases, then tests the format.
\* Result: the sanitized e-mail, or "" when ValidationError is thrown.
validateEmail(email) ==
  LET sanitizedEmail == ToLowerCase(email)
  IN IF EmailRegexTest(sanitizedEmail) THEN sanitizedEmail ELSE ""

\* ------------------------------------------------------------------------
\* Opaque random tokens and their SHA-256 digests.
\* [h |-> k, n |-> i] is the i-th random token hashed k times; h = -1 is a
\* NULL column and n = 0 the empty string.
\* ------------------------------------------------------------------------
NullTok == [h |-> -1, n |-> 0]
EmptyTok == [h |-> 0, n |-> 0]
RawTok(i) == [h |-> 0, n |-> i]

\* the token stored as it is
hashToken_Identity(token) == token

\* TokenService.hashToken
hashToken(token) == [token EXCEPT !.h = @ + 1]

\* ------------------------------------------------------------------------
\* Password hashes
\* ------------------------------------------------------------------------
NoPassword == [alg |-> "none", pw |-> ""]

hash(password) == [alg |-> "argon2id", pw |-> password]

\* PasswordService.compare -> verify: false on a missing hash
compare(password, h) ==
  IF h = NoPassword \/ password = "" THEN FALSE
  ELSE h.alg = "argon2id" /\ h.pw = password

\* ------------------------------------------------------------------------
\* Signed tokens
\* ------------------------------------------------------------------------
NoJwt == [typ |-> "none", key |-> "none", userId |-> 0, email |-> "",
          sid |-> 0, exp |-> 0]
ForgedJwt == [typ |-> "refresh", key |-> "forged", userId |-> 1, email |-> "",
              sid |-> 0, exp |-> REFRESH_EXPIRY]

\* TokenService.generateAccessToken: the signed token
generateAccessToken(userId, email, sessionId, t) ==
  [typ |-> "access", key |-> "jwtAccessSecret", userId |-> userId,
   email |-> email, sid |-> sessionId, exp |-> t + ACCESS_EXPIRY]

\* TokenService.generateRefreshToken: the signed token
generateRefreshToken(userId, sessionId, t) ==
  [typ |-> "refresh", key |-> "jwtRefreshSecret", userId |-> userId,
   email |-> "", sid |-> sessionId, exp |-> t + REFRESH_EXPIRY]

\* ------------------------------------------------------------------------
\* State
\* ------------------------------------------------------------------------
VARIABLES
  now,          \* Date.now() / 1000
  ticks,        \* number of clock advances so far
  users,        \* the users table: Seq of rows, id = index
  loginKeys,    \* redis login_attempts:<id>  -> [count, expireAt]
  resendKeys,   \* redis email_resend:<id>    -> [ts, expireAt]
  sessions,     \* redis session:<sid>        -> [userId, expireAt]
  refreshKeys,  \* redis token:refresh:<sid>  -> [tok, expireAt]
  blacklist,    \* redis token:blacklist:<hash> : set of [tok, expireAt]
  nextRand,     \* next value of generateRandomToken
  issued,       \* token pairs returned to callers, in order
  outbox,       \* e-mails the email service has sent
  last,         \* the last request and its outcome
  inflight      \* the requests being served: the step each has reached

vars == <<now, ticks, users, loginKeys, resendKeys, sessions, refreshKeys,
          blacklist, nextRand, issued, outbox, last, inflight>>

\* the requests that can be in flight together, and a free slot
Requests == 1..MaxRequests
Idle == [op |-> "idle"]

NoKey == [count |-> 0, expireAt |-> NoTime]
NoResend == [ts |-> NoTime, expireAt |-> NoTime]

\* sanitizeUser handing the row over as it is
sanitizeUser_Raw(id, user) ==
  [f \in DOMAIN user \cup {"id"} |-> IF f = "id" THEN id ELSE user[f]]

\* AuthService.sanitizeUser: the AuthUser built from the row with this id
sanitizeUser(id, user) ==
  [id |-> id,
   email |-> user.email,
   authProvider |-> user.authProvider,
   isEmailVerified |-> user.isEmailVerified,
   hasLoggedIn |-> user.hasLoggedIn,
   hasCompletedOnboarding |-> user.hasCompletedOnboarding,
   onboardingStep |-> user.onboardingStep]

\* no identity is returned
NoUser == [id |-> 0]

\* a request that returns an identity
Returning(op, uid, outcome, info, user) ==
  [op |-> op, uid |-> uid, outcome |-> outcome, info |-> info, user |-> user]

Outcome(op, uid, outcome, info) == Returning(op, uid, outcome, info, NoUser)

Init ==
  /\ now = 0
  /\ ticks = 0
  /\ users = <<>>
  /\ loginKeys = [u \in UserIds |-> NoKey]
  /\ resendKeys = [u \in UserIds |-> NoResend]
  /\ sessions = {}
  /\ refreshKeys = {}
  /\ blacklist = {}
  /\ nextRand = 1
  /\ issued = <<>>
  /\ outbox = {}
  /\ inflight = [r \in Requests |-> Idle]
  /\ last = Outcome("init", 0, "ok", "")

\* ------------------------------------------------------------------------
\* Identity store
\* ------------------------------------------------------------------------
Ids == 1..Len(users)

\* a row as created by the INSERT with the column defaults of users.table.ts
NewRow(email, password, authProvider, googleId, isEmailVerified, emailVerificationToken, emailVerificationExpires) ==
  [email |-> email,
   password |-> password,
   authProvider |-> authProvider,
   googleId |-> googleId,
   isEmailVerified |-> isEmailVerified,
   emailVerificationToken |-> emailVerificationToken,
   emailVerificationExpires |-> emailVerificationExpires,
   passwordResetToken |-> NullTok,
   passwordResetExpires |-> NoTime,
   refreshToken |-> NoJwt,
   loginAttempts |-> 0,
   lockedUntil |-> NoTime,
   hasLoggedIn |-> FALSE,
   hasCompletedOnboarding |-> FALSE,
   onboardingStep |-> 0]

\* findByEmail answering with a row whatever its e-mail
findByEmail_AnyRow(email) ==
  IF Ids = {} THEN 0 ELSE CHOOSE i \in Ids : TRUE

\* UserRepository.findByEmail: the id of the row, 0 for null
findByEmail(email) ==
  LET validatedEmail == validateEmail(email)
      hit == {i \in Ids : users[i].email = validatedEmail}
  IN IF hit = {} THEN 0 ELSE CHOOSE i \in hit : TRUE

\* UserRepository.findById
findById(id) == IF id \in Ids THEN id ELSE 0

\* ------------------------------------------------------------------------
\* Clock
\* ------------------------------------------------------------------------
LiveKey(k, t) == k.count > 0 /\ (k.expireAt = NoTime \/ t < k.expireAt)
LiveResend(k, t) == k.ts # NoTime /\ t < k.expireAt

\* the passing of time; redis drops the keys whose TTL has run out
Tick(dt) ==
  /\ ticks < MaxTicks
  /\ now' = now + dt
  /\ ticks' = ticks + 1
  /\ loginKeys' = [u \in UserIds |->
                     IF LiveKey(loginKeys[u], now + dt) THEN loginKeys[u] ELSE NoKey]
  /\ resendKeys' = [u \in UserIds |->
                     IF LiveResend(resendKeys[u], now + dt) THEN resendKeys[u] ELSE NoResend]
  /\ sessions' = {s \in sessions : now + dt < s.expireAt}
  /\ refreshKeys' = {s \in refreshKeys : now + dt < s.expireAt}
  /\ blacklist' = {b \in blacklist : now + dt < b.expireAt}
  /\ last' = Outcome("tick", 0, "ok", "")
  /\ UNCHANGED <<users, nextRand, issued, outbox, inflight>>

\* ------------------------------------------------------------------------
\* RateLimiterService
\* ------------------------------------------------------------------------
\* redis.get / redis.ttl of login_attempts:<id>
redisGetCount(userId, t) ==
  IF LiveKey(loginKeys[userId], t) THEN loginKeys[userId].count ELSE 0

redisTtl(userId, t) ==
  IF ~LiveKey(loginKeys[userId], t) THEN -2
  ELSE IF loginKeys[userId].expireAt = NoTime THEN -1
  ELSE loginKeys[userId].expireAt - t

Max(a, b) == IF a >= b THEN a ELSE b

\* RateLimiterService.checkLoginAttempts
checkLoginAttempts(userId, t) ==
  LET attemptCount == redisGetCount(userId, t)
      ttl == redisTtl(userId, t)
  IN IF attemptCount >= MAX_LOGIN_ATTEMPTS /\ ttl > 0
     THEN [canAttempt |-> FALSE, attemptsRemaining |-> 0, lockedUntil |-> t + ttl]
     ELSE [canAttempt |-> TRUE,
           attemptsRemaining |-> Max(0, MAX_LOGIN_ATTEMPTS - attemptCount),
           lockedUntil |-> NoTime]

\* recordFailedLogin setting the expiry on every attempt
recordFailedLoginKey_Sliding(k, t) ==
  LET attempts == (IF LiveKey(k, t) THEN k.count ELSE 0) + 1
  IN [count |-> attempts, expireAt |-> t + LOGIN_WINDOW]

\* RateLimiterService.recordFailedLogin: INCR, and EXPIRE on the first attempt
recordFailedLoginKey(k, t) ==
  LET attempts == (IF LiveKey(k, t) THEN k.count ELSE 0) + 1
  IN IF attempts = 1
     THEN [count |-> 1, expireAt |-> t + LOGIN_WINDOW]
     ELSE [count |-> attempts, expireAt |-> k.expireAt]

RecordFailedLogin(userId) ==
  /\ redisGetCount(userId, now) < MaxRecorded
  /\ loginKeys' = [loginKeys EXCEPT ![userId] = recordFailedLoginKey(@, now)]
  /\ last' = Outcome("recordFailedLogin", userId, "ok", "")
  /\ UNCHANGED <<now, ticks, users, resendKeys, sessions, refreshKeys,
                 blacklist, nextRand, issued, outbox, inflight>>

\* checkLoginAttempts counting the call as an attempt
CheckLoginAttempts_Counting(userId) ==
  LET r == checkLoginAttempts(userId, now)
  IN /\ redisGetCount(userId, now) < MaxRecorded
     /\ loginKeys' = [loginKeys EXCEPT ![userId] = recordFailedLoginKey(@, now)]
     /\ last' = Outcome("checkLoginAttempts", userId,
                        IF r.canAttempt THEN "canAttempt" ELSE "locked",
                        ToString(r.attemptsRemaining))
     /\ UNCHANGED <<now, ticks, users, resendKeys, sessions, refreshKeys,
                    blacklist, nextRand, issued, outbox, inflight>>

\* a call of RateLimiterService.checkLoginAttempts: GET and TTL, no write
CheckLoginAttempts(userId) ==
  LET r == checkLoginAttempts(userId, now)
  IN /\ last' = Outcome("checkLoginAttempts", userId,
                        IF r.canAttempt THEN "canAttempt" ELSE "locked",
                        ToString(r.attemptsRemaining))
     /\ UNCHANGED <<now, ticks, users, loginKeys, resendKeys, sessions,
                    refreshKeys, blacklist, nextRand, issued, outbox, inflight>>

\* RateLimiterService.resetLoginAttempts: DEL
ResetLoginAttempts(userId) ==
  /\ loginKeys' = [loginKeys EXCEPT ![userId] = NoKey]
  /\ last' = Outcome("resetLoginAttempts", userId, "ok", "")
  /\ UNCHANGED <<now, ticks, users, resendKeys, sessions, refreshKeys,
                 blacklist, nextRand, issued, outbox, inflight>>

\* ------------------------------------------------------------------------
\* AuthService helpers
\* ------------------------------------------------------------------------
\* AuthService.generateTokens: the pair built from two fresh session ids
generateTokens(userId, email) ==
  LET k == Len(issued) + 1
  IN [accessToken |-> generateAccessToken(userId, email, 2 * k - 1, now),
      refreshToken |-> generateRefreshToken(userId, 2 * k, now)]

\* which calls to the collaborators succeed while a request is served: the
\* SETEX of the session record, the SETEX of the refresh-token record, the
\* send of the email service
Env == [session : BOOLEAN, refresh : BOOLEAN, email : BOOLEAN]
AllUp == [session |-> TRUE, refresh |-> TRUE, email |-> TRUE]

\* the best-effort redis writes of generateAccessToken (storeSession) and
\* generateRefreshToken (SETEX token:refresh:<sid>): a rejected write is
\* caught and logged
StoreSessionRecordsUnder(tokens, env) ==
  /\ sessions' = IF env.session
                 THEN sessions \cup
                        {[sid |-> tokens.accessToken.sid,
                          userId |-> tokens.accessToken.userId,
                          expireAt |-> now + REFRESH_EXPIRY]}
                 ELSE sessions
  /\ refreshKeys' = IF env.refresh
                    THEN refreshKeys \cup
                           {[sid |-> tokens.refreshToken.sid,
                             tok |-> tokens.refreshToken,
                             expireAt |-> now + REFRESH_EXPIRY]}
                    ELSE refreshKeys

StoreSessionRecords(tokens) == StoreSessionRecordsUnder(tokens, AllUp)

\* AuthService.getTokenExpiry
getTokenExpiry(type) ==
  now + (IF type = "verification" THEN VERIFICATION_EXPIRY ELSE RESET_EXPIRY)

\* checkAccountStatus without the comparison against the clock
checkAccountStatus_NoClock(user) ==
  user.lockedUntil # NoTime

\* AuthService.checkAccountStatus: TRUE when AccountLockedError is thrown
checkAccountStatus(user) ==
  user.lockedUntil # NoTime /\ user.lockedUntil > now

Mail(kind, uid, tok) == [kind |-> kind, uid |-> uid, tok |-> tok]

\* sendEmailSafe sending again when the send was rejected
sendEmailSafe_Retry(mails, env) == outbox \cup mails

\* AuthService.sendEmailSafe: the outbox after the detached send; a rejected
\* send is caught and logged
sendEmailSafe(mails, env) == IF env.email THEN outbox \cup mails ELSE outbox

Fail(op, uid, outcome, info) ==
  /\ last' = Outcome(op, uid, outcome, info)
  /\ UNCHANGED <<now, ticks, users, loginKeys, resendKeys, sessions,
                 refreshKeys, blacklist, nextRand, issued, outbox, inflight>>

\* ------------------------------------------------------------------------
\* AuthService.registerUser
\* ------------------------------------------------------------------------
RegisterUserUnder(email, password, env) ==
  IF validateEmail(email) = "" THEN Fail("registerUser", 0, "ValidationError", email)
  ELSE IF findByEmail(email) # 0
  THEN Fail("registerUser", findByEmail(email), "ConflictError", email)
  ELSE
    LET verificationToken == RawTok(nextRand)
        hashedToken == hashToken(verificationToken)
        id == Len(users) + 1
        row == NewRow(validateEmail(email), hash(password), "local", "", FALSE,
                      hashedToken, getTokenExpiry("verification"))
        tokens == generateTokens(id, row.email)
    IN /\ nextRand <= MaxRand
       /\ Len(issued) < MaxIssue
       /\ users' = Append(users, [row EXCEPT !.refreshToken = tokens.refreshToken])
       /\ StoreSessionRecordsUnder(tokens, env)
       /\ nextRand' = nextRand + 1
       /\ issued' = Append(issued, tokens)
       /\ outbox' = sendEmailSafe({Mail("verification", id, verificationToken)}, env)
       /\ last' = Returning("registerUser", id, "ok", email, sanitizeUser(id, row))
       /\ UNCHANGED <<now, ticks, loginKeys, resendKeys, blacklist, inflight>>

RegisterUser(email, password) == RegisterUserUnder(email, password, AllUp)

\* ------------------------------------------------------------------------
\* AuthService.loginUser
\* ------------------------------------------------------------------------
\* AuthService.handleFailedLogin: incrementLoginAttempts, then the rate
\* limiter decides whether the account is locked
handleFailedLogin(user, userId) ==
  LET rateLimitCheck == checkLoginAttempts(userId, now)
      incremented == [user EXCEPT !.loginAttempts = @ + 1]
  IN IF ~rateLimitCheck.canAttempt /\ rateLimitCheck.lockedUntil # NoTime
     THEN [row |-> [incremented EXCEPT !.lockedUntil = rateLimitCheck.lockedUntil],
           error |-> "AccountLockedError"]
     ELSE [row |-> incremented, error |-> "AuthenticationError"]

LoginUserUnder(email, password, env) ==
  LET uid == findByEmail(email) IN
  IF validateEmail(email) = "" THEN Fail("loginUser", 0, "ValidationError", "")
  ELSE IF uid = 0 THEN Fail("loginUser", 0, "AuthenticationError", "unknown")
  ELSE
    LET user == users[uid]
        pw == IF compare(password, user.password) THEN "correct" ELSE "wrong"
    IN
    IF user.authProvider = "google"
    THEN Fail("loginUser", uid, "AuthenticationError", "google")
    ELSE IF checkAccountStatus(user)
    THEN Fail("loginUser", uid, "AccountLockedError", pw)
    ELSE IF user.password = NoPassword
    THEN Fail("loginUser", uid, "AuthenticationError", "nopassword")
    ELSE IF ~compare(password, user.password)
    THEN LET failed == handleFailedLogin(user, uid)
         IN /\ user.loginAttempts < MaxFailed
            /\ users' = [users EXCEPT ![uid] = failed.row]
            /\ last' = Outcome("loginUser", uid, failed.error, pw)
            /\ UNCHANGED <<now, ticks, loginKeys, resendKeys, sessions,
                           refreshKeys, blacklist, nextRand, issued, outbox, inflight>>
    ELSE LET tokens == generateTokens(uid, user.email)
         IN /\ Len(issued) < MaxIssue
            /\ users' = [users EXCEPT ![uid] =
                           [@ EXCEPT !.loginAttempts = 0,
                                     !.lockedUntil = NoTime,
                                     !.refreshToken = tokens.refreshToken,
                                     !.hasLoggedIn = TRUE]]
            /\ StoreSessionRecordsUnder(tokens, env)
            /\ issued' = Append(issued, tokens)
            /\ outbox' = IF ~user.hasLoggedIn /\ user.isEmailVerified
                         THEN sendEmailSafe({Mail("welcome", uid, NullTok)}, env)
                         ELSE outbox
            /\ last' = Returning("loginUser", uid, "ok", pw, sanitizeUser(uid, user))
            /\ UNCHANGED <<now, ticks, loginKeys, resendKeys, blacklist, nextRand, inflight>>

LoginUser(email, password) == LoginUserUnder(email, password, AllUp)

\* ------------------------------------------------------------------------
\* TokenService.verifyRefreshToken / verifyAccessToken (jwt.verify: the
\* signature first, then the expiry: expired when the clock has reached exp)
\* ------------------------------------------------------------------------
verifyRefreshToken(token, t) ==
  IF token.key # "jwtRefreshSecret"
  THEN [error |-> "InvalidTokenError", userId |-> 0]
  ELSE IF t >= token.exp
  THEN [error |-> "TokenExpiredError", userId |-> 0]
  ELSE [error |-> "", userId |-> token.userId]

\* verifyAccessToken letting a token through whatever the clock says
verifyAccessToken_NoExpiry(token, t) ==
  IF token.key # "jwtAccessSecret"
  THEN [error |-> "InvalidTokenError", userId |-> 0, email |-> ""]
  ELSE [error |-> "", userId |-> token.userId, email |-> token.email]

verifyAccessToken(token, t) ==
  IF token.key # "jwtAccessSecret"
  THEN [error |-> "InvalidTokenError", userId |-> 0, email |-> ""]
  ELSE IF t >= token.exp
  THEN [error |-> "TokenExpiredError", userId |-> 0, email |-> ""]
  ELSE [error |-> "", userId |-> token.userId, email |-> token.email]

\* authenticate also asking for a live session of the identity
authenticate_SessionBound(token, t) ==
  LET decoded == verifyAccessToken(token, t)
  IN IF decoded.error = "TokenExpiredError" THEN "AuthenticationError"
     ELSE IF decoded.error # "" THEN decoded.error
     ELSE IF findById(decoded.userId) = 0 THEN "AuthenticationError"
     ELSE IF users[decoded.userId].refreshToken = NoJwt THEN "AuthenticationError"
     ELSE ""

\* AuthMiddleware.authenticate on "Bearer <token>": "" when the request is let
\* through, else the error thrown
authenticate(token, t) ==
  LET decoded == verifyAccessToken(token, t)
  IN IF decoded.error = "TokenExpiredError" THEN "AuthenticationError"
     ELSE IF decoded.error # "" THEN decoded.error
     ELSE IF findById(decoded.userId) = 0 THEN "AuthenticationError"
     ELSE ""

\* UserRepository.findByRefreshToken: 0 for null
findByRefreshToken(refreshToken) ==
  LET hit == {i \in Ids : users[i].refreshToken = refreshToken}
  IN IF refreshToken = NoJwt \/ hit = {} THEN 0 ELSE CHOOSE i \in hit : TRUE

\* the signed tokens a caller can present: those returned to callers so far,
\* the empty string and a token signed with another key
PresentableJwts ==
  {NoJwt, ForgedJwt}
    \cup {issued[k].refreshToken : k \in 1..Len(issued)}
    \cup {issued[k].accessToken : k \in 1..Len(issued)}

\* ------------------------------------------------------------------------
\* AuthService.refreshToken
\* ------------------------------------------------------------------------
\* refreshToken looking the identity up by the token's userId claim only
refreshTokenUser_ById(refreshToken) ==
  LET decoded == verifyRefreshToken(refreshToken, now)
  IN IF refreshToken = NoJwt THEN 0
     ELSE IF decoded.error # "" THEN 0
     ELSE findById(decoded.userId)

\* refreshToken without the call of verifyRefreshToken
refreshTokenUser_NoVerify(refreshToken) ==
  LET uid == findByRefreshToken(refreshToken)
  IN IF refreshToken = NoJwt THEN 0
     ELSE IF uid = 0 \/ uid # refreshToken.userId THEN 0
     ELSE uid

\* the identity the refresh is granted to, 0 when InvalidTokenError is thrown
refreshTokenUser(refreshToken) ==
  LET decoded == verifyRefreshToken(refreshToken, now)
      uid == findByRefreshToken(refreshToken)
  IN IF refreshToken = NoJwt THEN 0
     ELSE IF decoded.error # "" THEN 0
     ELSE IF uid = 0 \/ uid # decoded.userId THEN 0
     ELSE uid

\* what the caller presented: the refresh token issued last to its identity,
\* one issued to it earlier, an access token, a forged token or nothing
Presented(token) ==
  IF token = NoJwt THEN "empty"
  ELSE IF token.key = "forged" THEN "forged"
  ELSE IF token.typ = "access" THEN "access"
  ELSE IF \E k \in 1..Len(issued) :
            /\ issued[k].refreshToken.userId = token.userId
            /\ issued[k].refreshToken.sid > token.sid
       THEN "older"
       ELSE "latest"

\* refreshToken raising what a rejected redis write throws
RefreshTokenUnder_Raising(refreshToken, env) ==
  LET uid == refreshTokenUser(refreshToken) IN
  IF uid = 0
  THEN Fail("refreshToken", refreshToken.userId, "InvalidTokenError",
            Presented(refreshToken))
  ELSE IF ~(env.session /\ env.refresh)
  THEN Fail("refreshToken", uid, "InternalError", Presented(refreshToken))
  ELSE LET tokens == generateTokens(uid, users[uid].email)
       IN /\ Len(issued) < MaxIssue
          /\ users' = [users EXCEPT ![uid].refreshToken = tokens.refreshToken]
          /\ StoreSessionRecordsUnder(tokens, env)
          /\ issued' = Append(issued, tokens)
          /\ last' = Outcome("refreshToken", uid, "ok", Presented(refreshToken))
          /\ UNCHANGED <<now, ticks, loginKeys, resendKeys, blacklist,
                         nextRand, outbox, inflight>>

RefreshTokenUnder(refreshToken, env) ==
  LET uid == refreshTokenUser(refreshToken) IN
  IF uid = 0
  THEN Fail("refreshToken", refreshToken.userId, "InvalidTokenError",
            Presented(refreshToken))
  ELSE LET tokens == generateTokens(uid, users[uid].email)
       IN /\ Len(issued) < MaxIssue
          /\ users' = [users EXCEPT ![uid].refreshToken = tokens.refreshToken]
          /\ StoreSessionRecordsUnder(tokens, env)
          /\ issued' = Append(issued, tokens)
          /\ last' = Outcome("refreshToken", uid, "ok", Presented(refreshToken))
          /\ UNCHANGED <<now, ticks, loginKeys, resendKeys, blacklist,
                         nextRand, outbox, inflight>>

RefreshToken(refreshToken) == RefreshTokenUnder(refreshToken, AllUp)

\* ------------------------------------------------------------------------
\* AuthService.logoutUser
\* ------------------------------------------------------------------------
LogoutUser(userId) ==
  /\ users' = IF userId \in Ids
              THEN [users EXCEPT ![userId].refreshToken = NoJwt]
              ELSE users
  /\ last' = Outcome("logoutUser", userId, "ok", "")
  /\ UNCHANGED <<now, ticks, loginKeys, resendKeys, sessions, refreshKeys,
                 blacklist, nextRand, issued, outbox, inflight>>

\* ------------------------------------------------------------------------
\* OAuthService / AuthService.authenticateWithGoogle
\* ------------------------------------------------------------------------
\* payload.sub of the Google account that owns the e-mail
GoogleSub(email) == IF email = "a@x.co" THEN "sub-a" ELSE "sub-b"

GoogleProfiles ==
  {[id |-> GoogleSub(e), email |-> e, emailVerified |-> v] :
     e \in {"a@x.co", "b@x.co"}, v \in BOOLEAN}

\* findOrCreateGoogleUser leaving an identity it finds as it is
findOrCreateGoogleUser_NoLink(profile) ==
  LET uid == findByEmail(profile.email)
  IN IF uid = 0
     THEN [users |-> Append(users,
                       NewRow(validateEmail(profile.email), NoPassword, "google",
                              profile.id, profile.emailVerified, NullTok, NoTime)),
           uid |-> Len(users) + 1,
           isNewUser |-> TRUE]
     ELSE [users |-> users, uid |-> uid, isNewUser |-> FALSE]

\* OAuthService.findOrCreateGoogleUser: the users table afterwards, the id of
\* the identity and isNewUser
findOrCreateGoogleUser(profile) ==
  LET uid == findByEmail(profile.email)
  IN IF uid = 0
     THEN [users |-> Append(users,
                       NewRow(validateEmail(profile.email), NoPassword, "google",
                              profile.id, profile.emailVerified, NullTok, NoTime)),
           uid |-> Len(users) + 1,
           isNewUser |-> TRUE]
     ELSE IF users[uid].googleId = "" /\ users[uid].authProvider = "google"
     THEN [users |-> [users EXCEPT ![uid].googleId = profile.id],
           uid |-> uid, isNewUser |-> FALSE]
     ELSE [users |-> users, uid |-> uid, isNewUser |-> FALSE]

\* processGoogleCode throws: the code exchange or the id-token check failed
GoogleCodeRejected ==
  Fail("authenticateWithGoogle", 0, "GoogleAuthenticationFailed", "")

AuthenticateWithGoogleUnder(profile, env) ==
  LET found == findOrCreateGoogleUser(profile)
      uid == found.uid
      tokens == generateTokens(uid, found.users[uid].email)
  IN /\ Len(issued) < MaxIssue
     /\ users' = [found.users EXCEPT ![uid] =
                    [@ EXCEPT !.refreshToken = tokens.refreshToken,
                              !.hasLoggedIn = TRUE]]
     /\ StoreSessionRecordsUnder(tokens, env)
     /\ issued' = Append(issued, tokens)
     /\ last' = Returning("authenticateWithGoogle", uid, "ok",
                          IF found.isNewUser THEN "new" ELSE "existing",
                          sanitizeUser(uid, found.users[uid]))
     /\ UNCHANGED <<now, ticks, loginKeys, resendKeys, blacklist, nextRand, outbox, inflight>>

AuthenticateWithGoogle(profile) == AuthenticateWithGoogleUnder(profile, AllUp)

\* ------------------------------------------------------------------------
\* Verification and reset tokens
\* ------------------------------------------------------------------------
GuessTok == [h |-> 0, n |-> -1]

\* the opaque tokens a caller can present: the ones generated so far, their
\* stored digests, the empty string and a guess
PresentableTokens ==
  {EmptyTok, GuessTok}
    \cup {RawTok(i) : i \in 1..(nextRand - 1)}
    \cup {hashToken(RawTok(i)) : i \in 1..(nextRand - 1)}

\* UserRepository.findByEmailVerificationToken: digest and expiry in one
\* query, run when the clock reads t
findByEmailVerificationToken(hashedToken, t) ==
  LET hit == {i \in Ids : /\ users[i].emailVerificationToken = hashedToken
                          /\ users[i].emailVerificationExpires # NoTime
                          /\ users[i].emailVerificationExpires > t}
  IN IF hit = {} THEN 0 ELSE CHOOSE i \in hit : TRUE

\* findByPasswordResetToken matching on the digest alone
findByPasswordResetToken_NoExpiry(hashedToken, t) ==
  LET hit == {i \in Ids : users[i].passwordResetToken = hashedToken}
  IN IF hit = {} THEN 0 ELSE CHOOSE i \in hit : TRUE

\* UserRepository.findByPasswordResetToken
findByPasswordResetToken(hashedToken, t) ==
  LET hit == {i \in Ids : /\ users[i].passwordResetToken = hashedToken
                          /\ users[i].passwordResetExpires # NoTime
                          /\ users[i].passwordResetExpires > t}
  IN IF hit = {} THEN 0 ELSE CHOOSE i \in hit : TRUE

\* AuthService.findUserByToken with the lookup run at t1 and the expiry of
\* the matched record checked at t2 (the repository waits 50-150 ms, its
\* addSecurityDelay, before it answers)
findUserByTokenAt(token, type, t1, t2) ==
  IF token = EmptyTok THEN [error |-> "InvalidTokenError", uid |-> 0]
  ELSE LET hashedToken == hashToken(token)
           uid == IF type = "verification"
                  THEN findByEmailVerificationToken(hashedToken, t1)
                  ELSE findByPasswordResetToken(hashedToken, t1)
           expirationField ==
             IF uid = 0 THEN NoTime
             ELSE IF type = "verification"
             THEN users[uid].emailVerificationExpires
             ELSE users[uid].passwordResetExpires
       IN IF uid = 0 THEN [error |-> "InvalidTokenError", uid |-> 0]
          ELSE IF expirationField = NoTime \/ expirationField < t2
          THEN [error |-> "TokenExpiredError", uid |-> 0]
          ELSE [error |-> "", uid |-> uid]

\* AuthService.findUserByToken with no time taken by the lookup
findUserByToken(token, type) == findUserByTokenAt(token, type, now, now)

\* ------------------------------------------------------------------------
\* AuthService.verifyEmail
\* ------------------------------------------------------------------------
\* verifyEmail leaving the token columns as they are
VerifyEmail_KeepsToken(token) ==
  LET found == findUserByToken(token, "verification") IN
  IF found.error # "" THEN Fail("verifyEmail", 0, found.error, "")
  ELSE /\ users' = [users EXCEPT ![found.uid].isEmailVerified = TRUE]
       /\ outbox' = IF users[found.uid].hasLoggedIn
                    THEN outbox \cup {Mail("welcome", found.uid, NullTok)}
                    ELSE outbox
       /\ last' = Outcome("verifyEmail", found.uid, "ok", "")
       /\ UNCHANGED <<now, ticks, loginKeys, resendKeys, sessions, refreshKeys,
                      blacklist, nextRand, issued, inflight>>

\* verifyEmail when the token lookup takes d; the clock variable moves in
\* Tick only, the time a request takes is not added to it
VerifyEmailUnder(token, d, env) ==
  LET found == findUserByTokenAt(token, "verification", now, now + d) IN
  IF found.error # ""
  THEN Fail("verifyEmail", 0, found.error, "")
  ELSE /\ users' = [users EXCEPT ![found.uid] =
                      [@ EXCEPT !.isEmailVerified = TRUE,
                                !.emailVerificationToken = NullTok,
                                !.emailVerificationExpires = NoTime]]
       /\ outbox' = IF users[found.uid].hasLoggedIn
                    THEN sendEmailSafe({Mail("welcome", found.uid, NullTok)}, env)
                    ELSE outbox
       /\ last' = Outcome("verifyEmail", found.uid, "ok", "")
       /\ UNCHANGED <<now, ticks, loginKeys, resendKeys, sessions, refreshKeys,
                      blacklist, nextRand, issued, inflight>>

VerifyEmailAt(token, d) == VerifyEmailUnder(token, d, AllUp)

VerifyEmail(token) == VerifyEmailAt(token, 0)

\* ------------------------------------------------------------------------
\* AuthService.forgotPassword.  fault: which collaborator call fails, if any
\* ------------------------------------------------------------------------
Faults == {"none", "lookup", "update", "send"}

\* forgotPassword keeping a reset token that is already stored
ForgotPassword_KeepsOld(email, fault) ==
  LET uid == findByEmail(email)
      resetToken == RawTok(nextRand)
      hashedToken == hashToken(resetToken)
  IN
  IF validateEmail(email) = ""
  THEN Fail("forgotPassword", 0, "ValidationError", fault)
  ELSE IF fault = "lookup"
  THEN Fail("forgotPassword", 0, "DatabaseError", fault)
  ELSE IF uid = 0
  THEN Fail("forgotPassword", 0, "ok", fault)
  ELSE IF fault = "update"
  THEN Fail("forgotPassword", uid, "ok", fault)
  ELSE /\ nextRand <= MaxRand
       /\ users' = IF users[uid].passwordResetToken # NullTok THEN users
                   ELSE [users EXCEPT ![uid] =
                           [@ EXCEPT !.passwordResetToken = hashedToken,
                                     !.passwordResetExpires = getTokenExpiry("reset")]]
       /\ nextRand' = nextRand + 1
       /\ outbox' = outbox \cup {Mail("reset", uid, resetToken)}
       /\ last' = Outcome("forgotPassword", uid, "ok", fault)
       /\ UNCHANGED <<now, ticks, loginKeys, resendKeys, sessions, refreshKeys,
                      blacklist, issued, inflight>>

ForgotPassword(email, fault) ==
  LET uid == findByEmail(email)
      resetToken == RawTok(nextRand)
      hashedToken == hashToken(resetToken)
  IN
  IF validateEmail(email) = ""
  THEN Fail("forgotPassword", 0, "ValidationError", fault)
  ELSE IF fault = "lookup"
  THEN Fail("forgotPassword", 0, "DatabaseError", fault)
  ELSE IF uid = 0
  THEN Fail("forgotPassword", 0, "ok", fault)
  ELSE IF fault = "update"
  THEN Fail("forgotPassword", uid, "ok", fault)
  ELSE /\ nextRand <= MaxRand
       /\ users' = [users EXCEPT ![uid] =
                      [@ EXCEPT !.passwordResetToken = hashedToken,
                                !.passwordResetExpires = getTokenExpiry("reset")]]
       /\ nextRand' = nextRand + 1
       /\ outbox' = outbox \cup {Mail("reset", uid, resetToken)}
       /\ last' = Outcome("forgotPassword", uid, "ok", fault)
       /\ UNCHANGED <<now, ticks, loginKeys, resendKeys, sessions, refreshKeys,
                      blacklist, issued, inflight>>

\* ------------------------------------------------------------------------
\* AuthService.resetPassword
\* ------------------------------------------------------------------------
\* resetPassword leaving the lockout columns as they are
ResetPassword_KeepsLock(token, newPassword) ==
  LET found == findUserByToken(token, "reset") IN
  IF found.error # "" THEN Fail("resetPassword", 0, found.error, "")
  ELSE /\ users' = [users EXCEPT ![found.uid] =
                      [@ EXCEPT !.password = hash(newPassword),
                                !.passwordResetToken = NullTok,
                                !.passwordResetExpires = NoTime]]
       /\ outbox' = outbox \cup {Mail("passwordChanged", found.uid, NullTok)}
       /\ last' = Outcome("resetPassword", found.uid, "ok", newPassword)
       /\ UNCHANGED <<now, ticks, loginKeys, resendKeys, sessions, refreshKeys,
                      blacklist, nextRand, issued, inflight>>

\* resetPassword when the token lookup takes d
\* resetPassword ending the sessions of the identity as well
ResetPasswordUnder_Revoking(token, newPassword, d, env) ==
  LET found == findUserByTokenAt(token, "reset", now, now + d) IN
  IF found.error # ""
  THEN Fail("resetPassword", 0, found.error, "")
  ELSE /\ users' = [users EXCEPT ![found.uid] =
                      [@ EXCEPT !.password = hash(newPassword),
                                !.passwordResetToken = NullTok,
                                !.passwordResetExpires = NoTime,
                                !.refreshToken = NoJwt,
                                !.loginAttempts = 0,
                                !.lockedUntil = NoTime]]
       /\ outbox' = sendEmailSafe({Mail("passwordChanged", found.uid, NullTok)}, env)
       /\ last' = Outcome("resetPassword", found.uid, "ok", newPassword)
       /\ UNCHANGED <<now, ticks, loginKeys, resendKeys, sessions, refreshKeys,
                      blacklist, nextRand, issued, inflight>>

ResetPasswordUnder(token, newPassword, d, env) ==
  LET found == findUserByTokenAt(token, "reset", now, now + d) IN
  IF found.error # ""
  THEN Fail("resetPassword", 0, found.error, "")
  ELSE /\ users' = [users EXCEPT ![found.uid] =
                      [@ EXCEPT !.password = hash(newPassword),
                                !.passwordResetToken = NullTok,
                                !.passwordResetExpires = NoTime,
                                !.loginAttempts = 0,
                                !.lockedUntil = NoTime]]
       /\ outbox' = sendEmailSafe({Mail("passwordChanged", found.uid, NullTok)}, env)
       /\ last' = Outcome("resetPassword", found.uid, "ok", newPassword)
       /\ UNCHANGED <<now, ticks, loginKeys, resendKeys, sessions, refreshKeys,
                      blacklist, nextRand, issued, inflight>>

ResetPasswordAt(token, newPassword, d) == ResetPasswordUnder(token, newPassword, d, AllUp)

ResetPassword(token, newPassword) == ResetPasswordAt(token, newPassword, 0)

\* ------------------------------------------------------------------------
\* AuthService.resendVerificationEmail
\* ------------------------------------------------------------------------
\* checkEmailResend without the delay
checkEmailResend_Always(userId, t) == TRUE

\* RateLimiterService.checkEmailResend: canResend
checkEmailResend(userId, t) ==
  LET k == resendKeys[userId]
  IN ~(LiveResend(k, t) /\ t - k.ts < EMAIL_RESEND_DELAY)

ResendVerificationEmail(userId) ==
  IF findById(userId) = 0
  THEN Fail("resendVerificationEmail", userId, "NotFoundError", "")
  ELSE IF users[userId].isEmailVerified
  THEN Fail("resendVerificationEmail", userId, "AuthenticationError", "")
  ELSE IF ~checkEmailResend(userId, now)
  THEN Fail("resendVerificationEmail", userId, "RateLimitError", "")
  ELSE LET verificationToken == RawTok(nextRand)
           hashedToken == hashToken(verificationToken)
       IN /\ nextRand <= MaxRand
          /\ resendKeys' = [resendKeys EXCEPT ![userId] =
                              [ts |-> now, expireAt |-> now + EMAIL_RESEND_DELAY]]
          /\ users' = [users EXCEPT ![userId] =
                         [@ EXCEPT !.emailVerificationToken = hashedToken,
                                   !.emailVerificationExpires =
                                      getTokenExpiry("verification")]]
          /\ nextRand' = nextRand + 1
          /\ outbox' = outbox \cup {Mail("verification", userId, verificationToken)}
          /\ last' = Outcome("resendVerificationEmail", userId, "ok", "")
          /\ UNCHANGED <<now, ticks, loginKeys, sessions, refreshKeys,
                         blacklist, issued, inflight>>

\* ------------------------------------------------------------------------
\* Lockout: one identity, the login flow and the rate limiter's counter
\* ------------------------------------------------------------------------
NextLock ==
  \/ \E dt \in {EMAIL_RESEND_DELAY, LOGIN_WINDOW} : Tick(dt)
  \/ RecordFailedLogin(1)
  \/ ResetLoginAttempts(1)
  \/ \E p \in {"p1"} : RegisterUser("a@x.co", p)
  \/ \E e \in {"a@x.co", "b@x.co"}, p \in Passwords : LoginUser(e, p)

SpecLock == Init /\ [][NextLock]_vars

\* ------------------------------------------------------------------------
\* The login flow as AuthService is wired: only its own requests
\* ------------------------------------------------------------------------
NextLogin ==
  \/ \E dt \in {EMAIL_RESEND_DELAY, LOGIN_WINDOW} : Tick(dt)
  \/ \E p \in {"p1"} : RegisterUser("a@x.co", p)
  \/ \E e \in {"a@x.co", "b@x.co"}, p \in Passwords : LoginUser(e, p)

SpecLogin == Init /\ [][NextLogin]_vars

\* C1: within the 15-minute window, the wrong-password login that brings the
\* identity to MAX_LOGIN_ATTEMPTS failures raises AccountLockedError and
\* persists a lockedUntil in the future; the failures before it raise
\* AuthenticationError.
C1_LockoutAtMaxAttempts ==
  (/\ last.op = "loginUser"
   /\ last.info = "wrong"
   /\ now < LOGIN_WINDOW)
  => IF users[last.uid].loginAttempts >= MAX_LOGIN_ATTEMPTS
     THEN /\ last.outcome = "AccountLockedError"
          /\ users[last.uid].lockedUntil > now
     ELSE last.outcome = "AuthenticationError"

FewWrongLogins == \A i \in DOMAIN users' : users'[i].loginAttempts <= MaxWrong

\* ------------------------------------------------------------------------
\* Sessions: two e-mails, the requests that write the refreshToken column
\* ------------------------------------------------------------------------
NextSession ==
  \/ Tick(ACCESS_EXPIRY)
  \/ \E e \in EmailInputs : RegisterUser(e, "p1")
  \/ \E e \in {"a@x.co", "b@x.co"}, p \in Passwords :
       LoginUser(e, p) /\ FewWrongLogins
  \/ \E profile \in GoogleProfiles : AuthenticateWithGoogle(profile)
  \/ GoogleCodeRejected
  \/ \E t \in PresentableJwts : RefreshToken(t)
  \/ \E u \in UserIds : LogoutUser(u)

SpecSession == Init /\ [][NextSession]_vars

\* ------------------------------------------------------------------------
\* Password reset: the requests that write password and authProvider
\* ------------------------------------------------------------------------
NextReset ==
  \/ Tick(RESET_EXPIRY)
  \/ \E e \in {"a@x.co", "b@x.co"} : RegisterUser(e, "p1")
  \/ \E e \in {"a@x.co", "b@x.co"}, p \in Passwords :
       LoginUser(e, p) /\ FewWrongLogins
  \/ \E profile \in GoogleProfiles : AuthenticateWithGoogle(profile)
  \/ \E e \in {"a@x.co", "b@x.co"}, f \in Faults : ForgotPassword(e, f)
  \/ \E t \in PresentableTokens : ResetPassword(t, "p2")

SpecReset == Init /\ [][NextReset]_vars

\* ------------------------------------------------------------------------
\* Opaque tokens: the requests that write the two token columns
\* ------------------------------------------------------------------------
NextTokens ==
  \/ Tick(RESET_EXPIRY)
  \/ \E e \in {"a@x.co", "b@x.co"} : RegisterUser(e, "p1")
  \/ \E e \in {"a@x.co", "b@x.co"} : ForgotPassword(e, "none")
  \/ \E t \in PresentableTokens : ResetPassword(t, "p2")
  \/ \E t \in PresentableTokens : VerifyEmail(t)
  \/ \E u \in UserIds : ResendVerificationEmail(u)

SpecTokens == Init /\ [][NextTokens]_vars

\* ------------------------------------------------------------------------
\* E-mail verification
\* ------------------------------------------------------------------------
NextVerify ==
  \/ Tick(EMAIL_RESEND_DELAY)
  \/ \E e \in {"a@x.co", "b@x.co"} : RegisterUser(e, "p1")
  \/ \E e \in {"a@x.co", "b@x.co"} : LoginUser(e, "p1")
  \/ \E profile \in GoogleProfiles : AuthenticateWithGoogle(profile)
  \/ \E t \in PresentableTokens : VerifyEmail(t)
  \/ \E u \in UserIds : ResendVerificationEmail(u)

SpecVerify == Init /\ [][NextVerify]_vars

\* ------------------------------------------------------------------------
\* Properties
\* ------------------------------------------------------------------------
IssuedRefresh == {issued[k].refreshToken : k \in 1..Len(issued)}
IssuedAccess == {issued[k].accessToken : k \in 1..Len(issued)}

\* C3: of the refresh tokens issued to an identity, refreshToken accepts at
\* most one, the one persisted last (the identity's stored refreshToken, the
\* latest issued to it); an earlier one is rejected with InvalidTokenError.
C3_SingleSlotRefresh ==
  /\ \A t \in IssuedRefresh :
       refreshTokenUser(t) # 0
         => /\ refreshTokenUser(t) = t.userId
            /\ users[t.userId].refreshToken = t
            /\ Presented(t) = "latest"
  /\ \A i \in Ids :
       Cardinality({t \in IssuedRefresh : refreshTokenUser(t) = i}) <= 1
  /\ (last.op = "refreshToken" /\ last.info = "older")
       => last.outcome = "InvalidTokenError"
  /\ (last.op = "refreshToken" /\ last.outcome = "ok")
       => last.info = "latest"

\* an earlier refresh token of an identity was presented and rejected
C3_Witness ==
  /\ last.op = "refreshToken"
  /\ last.info = "older"
  /\ last.outcome = "InvalidTokenError"
  /\ last.uid \in Ids
  /\ users[last.uid].refreshToken # NoJwt

\* C4: logoutUser(id) nulls the stored refreshToken and writes nothing to the
\* blacklist or the session records; afterwards every refresh token issued to
\* the identity is rejected, and its access tokens pass verifyAccessToken and
\* AuthMiddleware.authenticate as long as they have not expired.
C4_SoftLogout ==
  [][ (last'.op = "logoutUser" /\ last'.uid \in Ids)
      => /\ users'[last'.uid].refreshToken = NoJwt
         /\ blacklist' = blacklist
         /\ sessions' = sessions
         /\ refreshKeys' = refreshKeys
         /\ \A t \in IssuedRefresh :
              t.userId = last'.uid => refreshTokenUser(t)' = 0
         /\ \A t \in IssuedAccess :
              (t.userId = last'.uid /\ now < t.exp)
                => /\ verifyAccessToken(t, now).error = ""
                   /\ verifyAccessToken(t, now).userId = t.userId
                   /\ authenticate(t, now)' = ""
    ]_vars

\* an identity holding an unexpired access token has logged out
C4_Witness ==
  /\ last.op = "logoutUser"
  /\ last.uid \in Ids
  /\ \E t \in IssuedAccess : t.userId = last.uid /\ now < t.exp
  /\ \E t \in IssuedRefresh : t.userId = last.uid

\* C5: registerUser with an unclaimed e-mail adds exactly one identity (local,
\* not verified, onboardingStep 0) and changes no other; with an e-mail that
\* belongs to an identity, compared case-insensitively, it raises
\* ConflictError and the users table stays as it was.
C5_RegisterOnce ==
  [][ (last'.op = "registerUser" /\ last'.outcome # "ValidationError")
      => IF \E i \in Ids : users[i].email = ToLowerCase(last'.info)
         THEN /\ last'.outcome = "ConflictError"
              /\ users' = users
         ELSE /\ last'.outcome = "ok"
              /\ Len(users') = Len(users) + 1
              /\ SubSeq(users', 1, Len(users)) = users
              /\ users'[Len(users')].email = ToLowerCase(last'.info)
              /\ users'[Len(users')].authProvider = "local"
              /\ users'[Len(users')].isEmailVerified = FALSE
              /\ users'[Len(users')].onboardingStep = 0
    ]_vars

\* a registration with the same address in another case was refused
C5_Witness ==
  /\ last.op = "registerUser"
  /\ last.outcome = "ConflictError"
  /\ last.info = "A@X.co"
  /\ users[last.uid].email = "a@x.co"

\* C6: authenticateWithGoogle never succeeds for an identity whose
\* authProvider is local.
C6_NoFederatedLoginForLocal ==
  (last.op = "authenticateWithGoogle" /\ last.outcome = "ok")
    => users[last.uid].authProvider # "local"

\* C7: for every identity exactly one of {password hash present,
\* authProvider = google} holds.
C7_PasswordXorGoogle ==
  \A i \in Ids :
    (users[i].password # NoPassword) # (users[i].authProvider = "google")

\* C8: a stored emailVerificationToken or passwordResetToken is NULL or the
\* SHA-256 digest of a raw token that the same identity was sent by e-mail;
\* no raw token is stored.
C8_OnlyDigestsStored ==
  \A i \in Ids :
    /\ users[i].emailVerificationToken # NullTok
         => /\ \E m \in outbox :
                 /\ m.kind = "verification" /\ m.uid = i
                 /\ users[i].emailVerificationToken = [h |-> 1, n |-> m.tok.n]
            /\ \A m \in outbox : users[i].emailVerificationToken # m.tok
    /\ users[i].passwordResetToken # NullTok
         => /\ \E m \in outbox :
                 /\ m.kind = "reset" /\ m.uid = i
                 /\ users[i].passwordResetToken = [h |-> 1, n |-> m.tok.n]
            /\ \A m \in outbox : users[i].passwordResetToken # m.tok

\* an identity holds a verification digest and a reset digest at once
C8_Witness ==
  \E i \in Ids :
    /\ users[i].emailVerificationToken # NullTok
    /\ users[i].passwordResetToken # NullTok
    /\ last.op = "forgotPassword"
    /\ last.outcome = "ok"
    /\ last.uid = i

\* C9: forgotPassword with a well-formed e-mail always returns successfully,
\* whichever collaborator call fails.
C9_ForgotAlwaysSucceeds ==
  (last.op = "forgotPassword" /\ last.outcome # "ValidationError")
    => last.outcome = "ok"

\* C10: isEmailVerified goes from false to true only in a successful
\* verifyEmail for that identity, which nulls the token and its expiry in the
\* same update; it never goes back to false; and no verification token sent
\* to an identity that is verified is accepted by verifyEmail.
C10_VerifiedOnce ==
  [][ /\ \A i \in Ids :
           /\ (~users[i].isEmailVerified /\ users'[i].isEmailVerified)
                => /\ last'.op = "verifyEmail"
                   /\ last'.outcome = "ok"
                   /\ last'.uid = i
                   /\ users'[i].emailVerificationToken = NullTok
                   /\ users'[i].emailVerificationExpires = NoTime
           /\ users[i].isEmailVerified => users'[i].isEmailVerified
      /\ \A m \in outbox' :
           (m.kind = "verification" /\ users'[m.uid].isEmailVerified)
             => findUserByToken(m.tok, "verification")' =
                  [error |-> "InvalidTokenError", uid |-> 0]
      /\ (last'.op = "verifyEmail" /\ last'.outcome = "ok" /\ last'.uid \in Ids)
           => ~users[last'.uid].isEmailVerified
    ]_vars

\* a verification token was redeemed
C10_Witness ==
  /\ last.op = "verifyEmail"
  /\ last.outcome = "ok"
  /\ users[last.uid].isEmailVerified
  /\ \E m \in outbox : m.kind = "verification" /\ m.uid = last.uid

\* ------------------------------------------------------------------------
\* Password reset of a locked identity: the login flow, the rate limiter's
\* counter and the reset requests; b@x.co signs in with Google
\* ------------------------------------------------------------------------
NextResetLock ==
  \/ RecordFailedLogin(1)
  \/ RegisterUser("a@x.co", "p1")
  \/ \E e \in {"a@x.co", "b@x.co"}, p \in Passwords :
       LoginUser(e, p) /\ FewWrongLogins
  \/ AuthenticateWithGoogle([id |-> GoogleSub("b@x.co"), email |-> "b@x.co", emailVerified |-> TRUE])
  \/ \E e \in {"a@x.co", "b@x.co"} : ForgotPassword(e, "none")
  \/ \E t \in PresentableTokens : ResetPassword(t, "p2")

SpecResetLock == Init /\ [][NextResetLock]_vars

\* what C11 says of one step, for every identity or for the local ones only
C11_Step(providers) ==
  \A i \in Ids :
    /\ (last'.op = "resetPassword" /\ last'.outcome = "ok" /\ last'.uid = i
        /\ users[i].authProvider \in providers)
         => /\ users'[i].password = hash(last'.info)
            /\ users'[i].passwordResetToken = NullTok
            /\ users'[i].passwordResetExpires = NoTime
            /\ users'[i].loginAttempts = 0
            /\ users'[i].lockedUntil = NoTime
            /\ \A tok \in PresentableTokens :
                 hashToken(tok) = users[i].passwordResetToken
                   => findUserByToken(tok, "reset")' =
                        [error |-> "InvalidTokenError", uid |-> 0]
    /\ (/\ last.op = "resetPassword" /\ last.outcome = "ok" /\ last.uid = i
        /\ users[i].authProvider \in providers
        /\ last'.op = "loginUser" /\ last'.uid = i
        /\ last'.info # "wrong")
         => /\ last'.outcome = "ok"
            /\ users'[i].refreshToken = issued'[Len(issued')].refreshToken

Delays == {0, MaxDelay}

NextExpiry ==
  \/ \E dt \in {RESET_EXPIRY - 1, RESET_EXPIRY,
                VERIFICATION_EXPIRY - 1, VERIFICATION_EXPIRY} : Tick(dt)
  \/ \E e \in {"a@x.co", "b@x.co"} : RegisterUser(e, "p1")
  \/ \E e \in {"a@x.co", "b@x.co"} : ForgotPassword(e, "none")
  \/ \E t \in PresentableTokens, d \in Delays : VerifyEmailAt(t, d)
  \/ \E t \in PresentableTokens, d \in Delays : ResetPasswordAt(t, "p2", d)

SpecExpiry == Init /\ [][NextExpiry]_vars

StoredToken(i, type) ==
  IF type = "verification" THEN users[i].emailVerificationToken
  ELSE users[i].passwordResetToken

StoredExpires(i, type) ==
  IF type = "verification" THEN users[i].emailVerificationExpires
  ELSE users[i].passwordResetExpires

\* the identities whose stored digest of the kind is the digest of tok and
\* whose expiry is ahead of the clock when the request starts
LiveHolders(tok, type) ==
  {i \in Ids : /\ StoredToken(i, type) = hashToken(tok)
               /\ StoredExpires(i, type) # NoTime
               /\ StoredExpires(i, type) > now}

\* what C12 says of a request presenting tok whose lookup takes d
C12_Case(tok, type, d) ==
  /\ (tok = EmptyTok \/ LiveHolders(tok, type) = {})
       => last'.outcome = "InvalidTokenError"
  /\ last'.outcome = "TokenExpiredError"
       <=> \E i \in LiveHolders(tok, type) : StoredExpires(i, type) < now + d
  /\ last'.outcome \in {"InvalidTokenError", "TokenExpiredError"}
       => users' = users

\* C12: verifyEmail and resetPassword raise InvalidTokenError for an empty
\* token, a token whose digest no record stores, and a token whose record
\* has its expiry at or behind the clock at the lookup; they raise
\* TokenExpiredError exactly when the lookup matched a record and the expiry
\* is behind the clock at the second check; either way no identity changes.
\* (Stated contrapositively: a step that does not fit the case of tok and d
\* is not the request presenting tok with delay d.)
C12_TokenErrors ==
  [][ \A tok \in PresentableTokens, d \in Delays :
        /\ (last'.op = "verifyEmail" /\ ~C12_Case(tok, "verification", d))
             => ~VerifyEmailAt(tok, d)
        /\ (last'.op = "resetPassword" /\ ~C12_Case(tok, "reset", d))
             => ~ResetPasswordAt(tok, "p2", d)
    ]_vars

\* a token matched by the lookup was found expired at the second check
C12_Witness ==
  /\ last.op \in {"verifyEmail", "resetPassword"}
  /\ last.outcome = "TokenExpiredError"
  /\ \E i \in Ids : users[i].passwordResetExpires # NoTime

\* ------------------------------------------------------------------------
\* Refresh tokens presented before and after their expiry
\* ------------------------------------------------------------------------
NextRefreshExpiry ==
  \/ \E dt \in {ACCESS_EXPIRY, REFRESH_EXPIRY} : Tick(dt)
  \/ \E e \in {"a@x.co", "b@x.co"} : RegisterUser(e, "p1")
  \/ \E e \in {"a@x.co", "b@x.co"} : LoginUser(e, "p1")
  \/ \E t \in PresentableJwts : RefreshToken(t)

SpecRefreshExpiry == Init /\ [][NextRefreshExpiry]_vars

\* C13: a refresh token signed with the refresh secret and past its expiry
\* fails with TokenExpiredError in verifyRefreshToken, and the refreshToken
\* operation presented with such a token fails with TokenExpiredError too.
C13_ExpiredRefreshDistinguished ==
  /\ \A t \in IssuedRefresh :
       now >= t.exp => verifyRefreshToken(t, now).error = "TokenExpiredError"
  /\ (/\ last.op = "refreshToken"
      /\ last.info \in {"latest", "older"}
      /\ \A t \in IssuedRefresh : t.userId = last.uid => now >= t.exp)
       => last.outcome = "TokenExpiredError"

\* the presented token passes verifyRefreshToken, is the stored refreshToken
\* of an identity, and that identity is the one of its userId claim
C14_Acceptable(t) ==
  /\ t # NoJwt
  /\ t.key = "jwtRefreshSecret"
  /\ now < t.exp
  /\ \E i \in Ids : users[i].refreshToken = t /\ i = t.userId

\* what C14 says of the request presenting t
C14_Case(t) ==
  /\ last'.outcome \in {"ok", "InvalidTokenError"}
  /\ last'.outcome = "ok" => C14_Acceptable(t)
  /\ ~C14_Acceptable(t)
       => /\ last'.outcome = "InvalidTokenError"
          /\ issued' = issued
          /\ \A i \in Ids : users'[i].refreshToken = users[i].refreshToken
          /\ Len(users') = Len(users)
  /\ t.typ = "access" => last'.outcome = "InvalidTokenError"

\* C14: refreshToken succeeds only for a token that passes
\* verifyRefreshToken, equals the stored refreshToken of an identity and
\* carries that identity's id; otherwise it raises InvalidTokenError, issues
\* nothing and leaves every stored refreshToken as it was; an access token
\* is never accepted.  (Stated contrapositively: a step that does not fit
\* the case of t is not the request presenting t.)
C14_RefreshOnlyStored ==
  [][ \A t \in PresentableJwts :
        (last'.op = "refreshToken" /\ ~C14_Case(t)) => ~RefreshToken(t)
    ]_vars

\* the stored refresh token was presented after its expiry and turned down
C14_Witness ==
  /\ last.op = "refreshToken"
  /\ last.outcome = "InvalidTokenError"
  /\ last.info = "latest"
  /\ users[last.uid].refreshToken \in IssuedRefresh
  /\ now >= users[last.uid].refreshToken.exp

C16_NoPasswordLogin(e) ==
  \A i \in Ids : users[i].email = ToLowerCase(e) => users[i].authProvider = "google"

\* what C16 says of the request for e-mail e
C16_Case(e) ==
  C16_NoPasswordLogin(e)
    => /\ last'.outcome = "AuthenticationError"
       /\ users' = users
       /\ loginKeys' = loginKeys
       /\ issued' = issued
       /\ sessions' = sessions
       /\ refreshKeys' = refreshKeys
       /\ outbox' = outbox

\* C16: loginUser for a well-formed e-mail that belongs to no identity, and
\* for the e-mail of an identity with authProvider = google, raises
\* AuthenticationError and changes nothing: no attempt counter, no lock, no
\* token issued or stored.  (Stated contrapositively: a step that does not
\* fit the case of e is not the login request for e.)
C16_NoEnumerationNoState ==
  [][ \A e \in {"a@x.co", "b@x.co"}, p \in Passwords :
        (last'.op = "loginUser" /\ ~C16_Case(e)) => ~LoginUser(e, p)
    ]_vars

\* a password login for a google identity was refused, with an unknown
\* e-mail left to try
C16_Witness ==
  /\ last.op = "loginUser"
  /\ last.outcome = "AuthenticationError"
  /\ last.uid \in Ids
  /\ users[last.uid].authProvider = "google"
  /\ Len(users) = 1

\* ------------------------------------------------------------------------
\* Resends around the 60-second delay; b@x.co is a Google account
\* ------------------------------------------------------------------------
NextResend ==
  \/ \E dt \in {EMAIL_RESEND_DELAY - 1, EMAIL_RESEND_DELAY} : Tick(dt)
  \/ RegisterUser("a@x.co", "p1")
  \/ \E v \in BOOLEAN :
       AuthenticateWithGoogle([id |-> GoogleSub("b@x.co"), email |-> "b@x.co", emailVerified |-> v])
  \/ \E t \in PresentableTokens : VerifyEmail(t)
  \/ \E u \in UserIds : ResendVerificationEmail(u)

SpecResend == Init /\ [][NextResend]_vars

\* C17: resendVerificationEmail is rejected for a verified identity, and
\* with RateLimitError when the identity's previous accepted resend was less
\* than 60 seconds ago; a rejected call leaves the stored token and expiry as
\* they were; an accepted call stores the digest of a token not mailed
\* before, with an expiry 24 hours ahead, and is recorded as the identity's
\* latest resend.
C17_ResendLimited ==
  [][ \A u \in Ids :
        (last'.op = "resendVerificationEmail" /\ last'.uid = u)
          => LET recent == /\ resendKeys[u].ts # NoTime
                           /\ now - resendKeys[u].ts < EMAIL_RESEND_DELAY
             IN /\ users[u].isEmailVerified => last'.outcome = "AuthenticationError"
                /\ (~users[u].isEmailVerified /\ recent)
                     => last'.outcome = "RateLimitError"
                /\ last'.outcome # "ok"
                     => /\ users' = users
                        /\ resendKeys' = resendKeys
                        /\ outbox' = outbox
                /\ last'.outcome = "ok"
                     => /\ ~users[u].isEmailVerified /\ ~recent
                        /\ \E m \in outbox' \ outbox :
                             /\ m = Mail("verification", u, m.tok)
                             /\ users'[u].emailVerificationToken = hashToken(m.tok)
                             /\ users'[u].emailVerificationToken # users[u].emailVerificationToken
                        /\ users'[u].emailVerificationExpires = now + VERIFICATION_EXPIRY
                        /\ resendKeys'[u].ts = now
    ]_vars

\* a resend 59 seconds after the accepted one was refused
C17_Witness ==
  /\ last.op = "resendVerificationEmail"
  /\ last.outcome = "RateLimitError"
  /\ now = EMAIL_RESEND_DELAY - 1
  /\ resendKeys[last.uid].ts = 0

\* ------------------------------------------------------------------------
\* Superseded one-time tokens; b@x.co is a Google account
\* ------------------------------------------------------------------------
NextSupersede ==
  \/ Tick(EMAIL_RESEND_DELAY)
  \/ RegisterUser("a@x.co", "p1")
  \/ AuthenticateWithGoogle([id |-> GoogleSub("b@x.co"), email |-> "b@x.co", emailVerified |-> FALSE])
  \/ \E e \in {"a@x.co", "b@x.co"} : ForgotPassword(e, "none")
  \/ \E u \in UserIds : ResendVerificationEmail(u)
  \/ \E t \in PresentableTokens : VerifyEmail(t)
  \/ \E t \in PresentableTokens : ResetPassword(t, "p2")

SpecSupersede == Init /\ [][NextSupersede]_vars

\* the tokens of the kind mailed to identity i that a request would redeem,
\* whatever time up to MaxDelay its lookup takes
Redeemable(i, kind) ==
  {m \in outbox :
     /\ m.kind = kind /\ m.uid = i
     /\ \E d \in Delays :
          findUserByTokenAt(m.tok, kind, now, now + d).error # "InvalidTokenError"}

\* C18: per identity at most one verification token and at most one reset
\* token is redeemable; a token of a kind that was followed by a newer token
\* of the same kind for the same identity is rejected with
\* InvalidTokenError.
C18_OneLiveToken ==
  \A i \in Ids, kind \in {"verification", "reset"} :
    /\ Cardinality(Redeemable(i, kind)) <= 1
    /\ \A m \in outbox, newer \in outbox :
         (/\ m.kind = kind /\ m.uid = i
          /\ newer.kind = kind /\ newer.uid = i
          /\ newer.tok.n > m.tok.n)
           => m \notin Redeemable(i, kind)

\* a second reset token was mailed to an identity and is the redeemable one
C18_Witness ==
  \E m \in outbox, newer \in outbox :
    /\ m.kind = "reset" /\ newer.kind = "reset"
    /\ m.uid = newer.uid
    /\ newer.tok.n > m.tok.n
    /\ Redeemable(m.uid, "reset") = {newer}
    /\ last.op = "forgotPassword"

\* ------------------------------------------------------------------------
\* The rate limiter alone: its three login operations and the clock
\* ------------------------------------------------------------------------
NextLimiter ==
  \/ \E dt \in {EMAIL_RESEND_DELAY, LOGIN_WINDOW - EMAIL_RESEND_DELAY, LOGIN_WINDOW} : Tick(dt)
  \/ \E u \in UserIds : RecordFailedLogin(u)
  \/ \E u \in UserIds : ResetLoginAttempts(u)
  \/ \E u \in UserIds : CheckLoginAttempts(u)

SpecLimiter == Init /\ [][NextLimiter]_vars

\* C19: with MAX_LOGIN_ATTEMPTS or more failures recorded in the window,
\* checkLoginAttempts answers canAttempt = false with lockedUntil ahead of
\* the clock, and with fewer it lets attempt; the window starts with the
\* first failure: a failure recorded on a live key leaves its expiry, so
\* lockedUntil is never later than first failure + LOGIN_WINDOW; once the
\* clock has reached that instant the answer is canAttempt = true with
\* attemptsRemaining = MAX_LOGIN_ATTEMPTS.
C19_AnchoredWindow ==
  [][ \A u \in UserIds :
        LET k == loginKeys[u]
            r == checkLoginAttempts(u, now)
        IN /\ redisGetCount(u, now) >= MAX_LOGIN_ATTEMPTS
                => /\ ~r.canAttempt
                   /\ r.lockedUntil > now
                   /\ r.lockedUntil = k.expireAt
           /\ redisGetCount(u, now) < MAX_LOGIN_ATTEMPTS
                => /\ r.canAttempt
                   /\ r.attemptsRemaining = MAX_LOGIN_ATTEMPTS - redisGetCount(u, now)
           /\ (last'.op = "recordFailedLogin" /\ last'.uid = u)
                => IF LiveKey(k, now)
                   THEN /\ loginKeys'[u].count = k.count + 1
                        /\ loginKeys'[u].expireAt = k.expireAt
                   ELSE loginKeys'[u] = [count |-> 1, expireAt |-> now + LOGIN_WINDOW]
           /\ (last'.op = "tick" /\ k.count > 0 /\ now' >= k.expireAt)
                => checkLoginAttempts(u, now)' =
                     [canAttempt |-> TRUE, attemptsRemaining |-> MAX_LOGIN_ATTEMPTS,
                      lockedUntil |-> NoTime]
    ]_vars

\* a sixth failure was recorded later than the first and the lock still
\* ends LOGIN_WINDOW after the first
C19_Witness ==
  /\ last.op = "recordFailedLogin"
  /\ loginKeys[last.uid].count = MAX_LOGIN_ATTEMPTS + 1
  /\ now > 0
  /\ loginKeys[last.uid].expireAt = LOGIN_WINDOW
  /\ checkLoginAttempts(last.uid, now).lockedUntil = LOGIN_WINDOW

\* C20: a call of checkLoginAttempts writes nothing, and as long as no
\* failure is recorded, the counter is not reset and the window does not
\* end, it answers with the same canAttempt and attemptsRemaining.
C20_CheckIsPureRead ==
  [][ /\ \A u \in UserIds :
           (last'.op = "checkLoginAttempts" /\ last'.uid = u)
             => /\ loginKeys' = loginKeys
                /\ resendKeys' = resendKeys
                /\ sessions' = sessions
                /\ refreshKeys' = refreshKeys
                /\ blacklist' = blacklist
                /\ users' = users
                /\ last'.outcome =
                     (IF checkLoginAttempts(u, now)'.canAttempt
                      THEN "canAttempt" ELSE "locked")
      /\ (/\ last.op = "checkLoginAttempts" /\ last'.op = "checkLoginAttempts"
          /\ last'.uid = last.uid)
           => last' = last
      /\ \A u \in UserIds :
           (/\ last'.op \in {"checkLoginAttempts", "tick"}
            /\ LiveKey(loginKeys[u], now) <=> LiveKey(loginKeys[u], now'))
             => /\ checkLoginAttempts(u, now)'.canAttempt =
                     checkLoginAttempts(u, now).canAttempt
                /\ checkLoginAttempts(u, now)'.attemptsRemaining =
                     checkLoginAttempts(u, now).attemptsRemaining
    ]_vars

\* checkLoginAttempts was called on a locked counter and answered locked
C20_Witness ==
  /\ last.op = "checkLoginAttempts"
  /\ last.outcome = "locked"
  /\ loginKeys[last.uid].count >= MAX_LOGIN_ATTEMPTS
  /\ now > 0

\* ------------------------------------------------------------------------
\* The e-mail resend cooldown of the rate limiter alone
\* ------------------------------------------------------------------------
\* RateLimiterService.checkEmailResend: what it returns
checkEmailResendResult(userId, t) ==
  LET k == resendKeys[userId]
  IN IF LiveResend(k, t) /\ t - k.ts < EMAIL_RESEND_DELAY
     THEN [canResend |-> FALSE, nextAllowedAt |-> k.ts + EMAIL_RESEND_DELAY]
     ELSE [canResend |-> TRUE, nextAllowedAt |-> NoTime]

\* checkEmailResend recording the call also when it refuses
CheckEmailResend_Restarts(userId) ==
  LET r == checkEmailResendResult(userId, now)
  IN /\ resendKeys' = [resendKeys EXCEPT ![userId] =
                         [ts |-> now, expireAt |-> now + EMAIL_RESEND_DELAY]]
     /\ last' = Outcome("checkEmailResend", userId,
                        IF r.canResend THEN "canResend" ELSE "wait",
                        ToString(r.nextAllowedAt))
     /\ UNCHANGED <<now, ticks, users, loginKeys, sessions, refreshKeys,
                    blacklist, nextRand, issued, outbox, inflight>>

\* a call of RateLimiterService.checkEmailResend: SET ... EX when it allows
CheckEmailResend(userId) ==
  LET r == checkEmailResendResult(userId, now)
  IN /\ resendKeys' = IF r.canResend
                      THEN [resendKeys EXCEPT ![userId] =
                              [ts |-> now, expireAt |-> now + EMAIL_RESEND_DELAY]]
                      ELSE resendKeys
     /\ last' = Outcome("checkEmailResend", userId,
                        IF r.canResend THEN "canResend" ELSE "wait",
                        ToString(r.nextAllowedAt))
     /\ UNCHANGED <<now, ticks, users, loginKeys, sessions, refreshKeys,
                    blacklist, nextRand, issued, outbox, inflight>>

\* the clock steps around the end of the cooldown
CooldownSteps ==
  {1, EMAIL_RESEND_DELAY \div 2, EMAIL_RESEND_DELAY - 2, EMAIL_RESEND_DELAY - 1, EMAIL_RESEND_DELAY, EMAIL_RESEND_DELAY + 1}

NextCooldown ==
  \/ \E dt \in CooldownSteps : Tick(dt)
  \/ \E u \in UserIds : CheckEmailResend(u)

SpecCooldown == Init /\ [][NextCooldown]_vars

\* C21: a checkEmailResend call less than 60 seconds after the call that
\* was answered canResend = true is answered canResend = false with
\* nextAllowedAt = accepted time + 60 s and leaves the cooldown as it is;
\* a call with no accepted call in the last 60 seconds is answered
\* canResend = true and becomes the accepted call.
C21_ResendCooldown ==
  [][ \A u \in UserIds :
        (last'.op = "checkEmailResend" /\ last'.uid = u)
          => LET accepted == resendKeys[u].ts
             IN IF accepted # NoTime /\ now - accepted < EMAIL_RESEND_DELAY
                THEN /\ last'.outcome = "wait"
                     /\ last'.info = ToString(accepted + EMAIL_RESEND_DELAY)
                     /\ resendKeys' = resendKeys
                ELSE /\ last'.outcome = "canResend"
                     /\ resendKeys'[u].ts = now
                     /\ \A v \in UserIds \ {u} : resendKeys'[v] = resendKeys[v]
    ]_vars

\* a call 59 seconds after the accepted one was answered with the instant
\* 60 seconds after the accepted one
C21_Witness ==
  /\ last.op = "checkEmailResend"
  /\ last.outcome = "wait"
  /\ now = EMAIL_RESEND_DELAY - 1
  /\ last.info = ToString(EMAIL_RESEND_DELAY)
  /\ resendKeys[last.uid].ts = 0

\* ------------------------------------------------------------------------
\* Access tokens: verification and revocation
\* ------------------------------------------------------------------------
\* verifyAccessToken refusing a token found on the blacklist
VerifyAccessToken_Blacklist(token) ==
  LET decoded == verifyAccessToken(token, now)
  IN IF \E b \in blacklist : b.tok = token
     THEN Fail("verifyAccessToken", 0, "InvalidTokenError", "")
     ELSE Fail("verifyAccessToken", decoded.userId,
               IF decoded.error = "" THEN "ok" ELSE decoded.error, decoded.email)

\* a call of TokenService.verifyAccessToken: the payload returned, or the
\* error thrown
VerifyAccessToken(token) ==
  LET decoded == verifyAccessToken(token, now)
  IN Fail("verifyAccessToken", decoded.userId,
          IF decoded.error = "" THEN "ok" ELSE decoded.error, decoded.email)

\* TokenService.revokeToken: jwt.decode reads exp without checking the
\* signature; SETEX token:blacklist:<sha256 of the token> for the remaining
\* lifetime
RevokeToken(token) ==
  LET ttl == token.exp - now
  IN /\ blacklist' = IF token = NoJwt \/ ttl <= 0
                     THEN blacklist
                     ELSE {b \in blacklist : b.tok # token}
                            \cup {[tok |-> token, expireAt |-> now + ttl]}
     /\ last' = Outcome("revokeToken", token.userId, "ok", "")
     /\ UNCHANGED <<now, ticks, users, loginKeys, resendKeys, sessions,
                    refreshKeys, nextRand, issued, outbox, inflight>>

\* the clock steps around the end of an access token's lifetime
AccessSteps == {ACCESS_EXPIRY - 1, ACCESS_EXPIRY, ACCESS_EXPIRY + 1}

NextAccess ==
  \/ \E dt \in AccessSteps : Tick(dt)
  \/ RegisterUser("a@x.co", "p1")
  \/ LoginUser("a@x.co", "p1")
  \/ \E t \in PresentableJwts : VerifyAccessToken(t)
  \/ \E t \in PresentableJwts : RevokeToken(t)

SpecAccess == Init /\ [][NextAccess]_vars

\* C22: verifyAccessToken returns the userId and the email of a token made by
\* generateAccessToken at every time before the token's expiry and throws
\* TokenExpiredError at every time after it; for a token not signed with the
\* access secret it throws InvalidTokenError.
C22_AccessTokenLifetime ==
  [][ \A tok \in PresentableJwts :
        VerifyAccessToken(tok) =>
          /\ (tok \in IssuedAccess /\ now < tok.exp)
               => /\ last'.outcome = "ok"
                  /\ last'.uid = tok.userId
                  /\ last'.info = tok.email
          /\ (tok \in IssuedAccess /\ now > tok.exp)
               => last'.outcome = "TokenExpiredError"
          /\ tok \notin IssuedAccess => last'.outcome = "InvalidTokenError"
    ]_vars

\* an access token was accepted one second before its expiry
C22_Witness ==
  /\ last.op = "verifyAccessToken"
  /\ last.outcome = "ok"
  /\ \E tok \in IssuedAccess :
       /\ tok.exp = now + 1
       /\ tok.userId = last.uid
       /\ tok.email = last.info

\* the blacklist entry of a token, if any
Blacklisted(tok) == {b \in blacklist : b.tok = tok}

RevokeAllUserTokens(userId) ==
  LET matching == {s \in sessions : s.userId = userId}
  IN /\ sessions' = sessions \ matching
     /\ refreshKeys' = {r \in refreshKeys : \A s \in matching : r.sid # s.sid}
     /\ last' = Outcome("revokeAllUserTokens", userId, "ok", "")
     /\ UNCHANGED <<now, ticks, users, loginKeys, resendKeys, blacklist,
                    nextRand, issued, outbox, inflight>>

NextRevoke ==
  \/ \E e \in {"a@x.co", "b@x.co"} : RegisterUser(e, "p1")
  \/ LoginUser("a@x.co", "p1")
  \/ \E u \in UserIds : RevokeAllUserTokens(u)
  \/ \E t \in PresentableJwts : RefreshToken(t)

SpecRevoke == Init /\ [][NextRevoke]_vars

\* C24: when revokeAllUserTokens(id) has completed the store holds no session
\* record and no refresh-token record of identity id, and every session and
\* refresh-token record of another identity is still there.
C24_RevokeAllRemovesRecords ==
  [][ \A u \in UserIds :
        (last'.op = "revokeAllUserTokens" /\ last'.uid = u) =>
          /\ \A s \in sessions' : s.userId # u
          /\ \A r \in refreshKeys' : r.tok.userId # u
          /\ \A s \in sessions : s.userId # u => s \in sessions'
          /\ \A r \in refreshKeys : r.tok.userId # u => r \in refreshKeys'
    ]_vars

\* C25: a refresh token issued to identity id before revokeAllUserTokens(id)
\* is refused by refreshToken (InvalidTokenError at the identity lookup) when
\* it is presented after the revocation.
C25_RevokedRefreshFails ==
  [][ \A u \in UserIds :
        (/\ last.op = "revokeAllUserTokens" /\ last.uid = u
         /\ last'.op = "refreshToken" /\ last'.uid = u)
          => last'.outcome = "InvalidTokenError"
    ]_vars

\* ------------------------------------------------------------------------
\* Issuance while the writes to the key-value store fail
\* ------------------------------------------------------------------------
\* the email service works, each of the two redis writes may be rejected
RedisFaults == {env \in Env : env.email}

NextOutage ==
  \/ \E env \in RedisFaults : RegisterUserUnder("a@x.co", "p1", env)
  \/ \E env \in RedisFaults : LoginUserUnder("a@x.co", "p1", env)
  \/ \E p \in GoogleProfiles, env \in RedisFaults : AuthenticateWithGoogleUnder(p, env)
  \/ \E t \in PresentableJwts, env \in RedisFaults : RefreshTokenUnder(t, env)

SpecOutage == Init /\ [][NextOutage]_vars

\* the step taken is the step A of the same request with every collaborator
\* up, except for session and refresh-token records that A would have written
C26_AsWhenUp(A) ==
  /\ sessions \subseteq sessions'
  /\ refreshKeys \subseteq refreshKeys'
  /\ \A l \in {last'}, u \in {users'}, i \in {issued'}, n \in {nextRand'},
        o \in {outbox'}, ss \in {sessions'}, rr \in {refreshKeys'} :
       ENABLED (/\ A
                /\ last' = l /\ users' = u /\ issued' = i /\ nextRand' = n
                /\ outbox' = o
                /\ ss \subseteq sessions' /\ rr \subseteq refreshKeys')

\* C26: when the writes to the key-value store fail while tokens are issued,
\* registerUser, loginUser, authenticateWithGoogle and refreshToken answer as
\* they do when the store is up: the token pair is returned and its refresh
\* token stored on the identity; only session and refresh-token records of
\* that issuance are missing.
C26_StoreOutageTolerated ==
  [][ \A env \in RedisFaults :
        /\ RegisterUserUnder("a@x.co", "p1", env)
             => C26_AsWhenUp(RegisterUser("a@x.co", "p1"))
        /\ LoginUserUnder("a@x.co", "p1", env) => C26_AsWhenUp(LoginUser("a@x.co", "p1"))
        /\ \A p \in GoogleProfiles :
             AuthenticateWithGoogleUnder(p, env) => C26_AsWhenUp(AuthenticateWithGoogle(p))
        /\ \A t \in PresentableJwts :
             RefreshTokenUnder(t, env) => C26_AsWhenUp(RefreshToken(t))
        /\ (last'.outcome = "ok" /\ last'.op # "init") =>
             /\ Len(issued') = Len(issued) + 1
             /\ issued'[Len(issued')].refreshToken.userId = last'.uid
             /\ users'[last'.uid].refreshToken = issued'[Len(issued')].refreshToken
    ]_vars

\* a request was answered with a token pair while both writes failed
C26_Witness ==
  /\ last.op \in {"registerUser", "loginUser", "authenticateWithGoogle", "refreshToken"}
  /\ last.outcome = "ok"
  /\ Len(issued) = 2
  /\ sessions = {}
  /\ refreshKeys = {}
  /\ users[last.uid].refreshToken = issued[2].refreshToken

\* ------------------------------------------------------------------------
\* Requests served while the email service rejects the send
\* ------------------------------------------------------------------------
\* the key-value store works, the send may be rejected
MailFaults == {env \in Env : env.session /\ env.refresh}

NextMailFault ==
  \/ \E env \in MailFaults : RegisterUserUnder("a@x.co", "p1", env)
  \/ \E pw \in Passwords, env \in MailFaults : LoginUserUnder("a@x.co", pw, env)
  \/ \E t \in PresentableTokens, env \in MailFaults : VerifyEmailUnder(t, 0, env)
  \/ ForgotPassword("a@x.co", "none")
  \/ \E t \in PresentableTokens, env \in MailFaults : ResetPasswordUnder(t, "p2", 0, env)

SpecMailFault == Init /\ [][NextMailFault]_vars

\* the step taken is the step A of the same request with every collaborator
\* up, except for e-mails that A would have sent
C27_AsWhenSent(A) ==
  \A l \in {last'}, u \in {users'}, i \in {issued'}, n \in {nextRand'},
     ss \in {sessions'}, rr \in {refreshKeys'} :
    ENABLED (/\ A
             /\ last' = l /\ users' = u /\ issued' = i /\ nextRand' = n
             /\ sessions' = ss /\ refreshKeys' = rr)

\* C27: when the email service rejects the send, registerUser, loginUser,
\* verifyEmail and resetPassword answer and write exactly as they do when the
\* e-mail goes out, and the e-mail is not sent again: the request ends with
\* no e-mail sent.
C27_EmailFailureSwallowed ==
  [][ \A env \in MailFaults :
        ~env.email =>
          /\ RegisterUserUnder("a@x.co", "p1", env)
               => /\ C27_AsWhenSent(RegisterUser("a@x.co", "p1"))
                  /\ outbox' = outbox
          /\ \A pw \in Passwords :
               LoginUserUnder("a@x.co", pw, env)
                 => /\ C27_AsWhenSent(LoginUser("a@x.co", pw))
                    /\ outbox' = outbox
          /\ \A t \in PresentableTokens :
               /\ VerifyEmailUnder(t, 0, env)
                    => /\ C27_AsWhenSent(VerifyEmail(t))
                       /\ outbox' = outbox
               /\ ResetPasswordUnder(t, "p2", 0, env)
                    => /\ C27_AsWhenSent(ResetPassword(t, "p2"))
                       /\ outbox' = outbox
    ]_vars

\* the password was reset although no e-mail of the identity ever went out
\* except the one carrying the reset token
C27_Witness ==
  /\ last.op = "resetPassword"
  /\ last.outcome = "ok"
  /\ users[last.uid].password = hash("p2")
  /\ \A m \in outbox : m.kind = "reset"

\* ------------------------------------------------------------------------
\* OAuthService.findOrCreateGoogleUser on its own
\* ------------------------------------------------------------------------
\* the users tables the calls start from: empty, or one row of a@x.co that is
\* a local identity, a google identity without googleId or one with it
GoogleTables ==
  {<<>>,
   <<NewRow("a@x.co", hash("p1"), "local", "", FALSE, NullTok, NoTime)>>,
   <<NewRow("a@x.co", NoPassword, "google", "", TRUE, NullTok, NoTime)>>,
   <<NewRow("a@x.co", NoPassword, "google", "sub-a", TRUE, NullTok, NoTime)>>}

InitGoogle ==
  /\ now = 0
  /\ ticks = 0
  /\ users \in GoogleTables
  /\ loginKeys = [u \in UserIds |-> NoKey]
  /\ resendKeys = [u \in UserIds |-> NoResend]
  /\ sessions = {}
  /\ refreshKeys = {}
  /\ blacklist = {}
  /\ nextRand = 1
  /\ issued = <<>>
  /\ outbox = {}
  /\ inflight = [r \in Requests |-> Idle]
  /\ last = Outcome("init", 0, "ok", "")

\* a call of OAuthService.findOrCreateGoogleUser
FindOrCreateGoogleUser(profile) ==
  LET found == findOrCreateGoogleUser(profile)
  IN /\ users' = found.users
     /\ last' = Outcome("findOrCreateGoogleUser", found.uid,
                        IF found.isNewUser THEN "new" ELSE "existing",
                        profile.email)
     /\ UNCHANGED <<now, ticks, loginKeys, resendKeys, sessions, refreshKeys,
                    blacklist, nextRand, issued, outbox, inflight>>

NextGoogle ==
  \/ \E p \in GoogleProfiles : FindOrCreateGoogleUser(p)
  \/ \E p \in GoogleProfiles : AuthenticateWithGoogle(p)
  \/ \E e \in {"a@x.co", "b@x.co"} : RegisterUser(e, "p1")

SpecGoogle == InitGoogle /\ [][NextGoogle]_vars

\* C28: findOrCreateGoogleUser called with an e-mail that no identity has
\* creates exactly one identity (authProvider google, googleId the profile id,
\* isEmailVerified as the profile says, no password) and answers isNewUser =
\* true; called with an e-mail an identity has, it creates none, answers
\* isNewUser = false and sets googleId when that identity is a google identity
\* without one, changing nothing else.
C28_FindOrCreate ==
  [][ \A p \in GoogleProfiles :
        FindOrCreateGoogleUser(p) =>
          LET i == findByEmail(p.email) IN
          IF i = 0
          THEN /\ last'.outcome = "new"
               /\ Len(users') = Len(users) + 1
               /\ last'.uid = Len(users')
               /\ \A j \in Ids : users'[j] = users[j]
               /\ users'[Len(users')].email = p.email
               /\ users'[Len(users')].authProvider = "google"
               /\ users'[Len(users')].googleId = p.id
               /\ users'[Len(users')].isEmailVerified = p.emailVerified
               /\ users'[Len(users')].password = NoPassword
          ELSE /\ last'.outcome = "existing"
               /\ last'.uid = i
               /\ Len(users') = Len(users)
               /\ \A j \in Ids \ {i} : users'[j] = users[j]
               /\ users'[i] =
                    IF users[i].authProvider = "google" /\ users[i].googleId = ""
                    THEN [users[i] EXCEPT !.googleId = p.id]
                    ELSE users[i]
    ]_vars

\* a second identity was created for a Google profile whose e-mail was new
C28_Witness ==
  /\ last.op = "findOrCreateGoogleUser"
  /\ last.outcome = "new"
  /\ last.uid = 2
  /\ users[2].authProvider = "google"
  /\ users[2].googleId = GoogleSub(users[2].email)
  /\ users[2].password = NoPassword
  /\ users[1].email # users[2].email

\* ------------------------------------------------------------------------
\* AuthService.getCurrentUser and the identities handed to callers
\* ------------------------------------------------------------------------
GetCurrentUser(userId) ==
  IF findById(userId) = 0
  THEN Fail("getCurrentUser", userId, "NotFoundError", "")
  ELSE /\ last' = Returning("getCurrentUser", userId, "ok", "",
                            sanitizeUser(userId, users[userId]))
       /\ UNCHANGED <<now, ticks, users, loginKeys, resendKeys, sessions,
                      refreshKeys, blacklist, nextRand, issued, outbox, inflight>>

NextSanitize ==
  \/ \E e \in {"a@x.co", "b@x.co"} : RegisterUser(e, "p1")
  \/ \E pw \in Passwords : LoginUser("a@x.co", pw)
  \/ \E p \in GoogleProfiles : AuthenticateWithGoogle(p)
  \/ ForgotPassword("a@x.co", "none")
  \/ \E u \in UserIds : GetCurrentUser(u)

SpecSanitize == Init /\ [][NextSanitize]_vars

\* the columns of the users row that stay inside the service
SensitiveFields ==
  {"password", "emailVerificationToken", "emailVerificationExpires",
   "passwordResetToken", "passwordResetExpires", "refreshToken",
   "loginAttempts", "lockedUntil"}

\* C29: the identity returned by registerUser, loginUser, getCurrentUser and
\* authenticateWithGoogle is the one sanitizeUser builds: it is the identity
\* the request was served for and carries no password hash, no verification
\* or reset token field, no stored refresh token, no loginAttempts and no
\* lockedUntil.
C29_ReturnedIdentitySanitized ==
  (/\ last.op \in {"registerUser", "loginUser", "getCurrentUser",
                   "authenticateWithGoogle"}
   /\ last.outcome = "ok")
    => /\ DOMAIN last.user \cap SensitiveFields = {}
       /\ last.user.id = last.uid
       /\ last.user.email = users[last.uid].email
       /\ last.user.authProvider = users[last.uid].authProvider

\* getCurrentUser answered for an identity whose row holds a password hash, a
\* refresh token and a reset token
C29_Witness ==
  /\ last.op = "getCurrentUser"
  /\ last.outcome = "ok"
  /\ users[last.uid].password # NoPassword
  /\ users[last.uid].refreshToken # NoJwt
  /\ users[last.uid].passwordResetToken # NullTok
  /\ last.user.email = users[last.uid].email

\* ------------------------------------------------------------------------
\* PasswordService.generateTemporaryPassword
\* ------------------------------------------------------------------------
length == 12

charset ==
  <<"a", "b", "c", "d", "e", "f", "g", "h", "i", "j", "k", "l", "m",
    "n", "o", "p", "q", "r", "s", "t", "u", "v", "w", "x", "y", "z",
    "A", "B", "C", "D", "E", "F", "G", "H", "I", "J", "K", "L", "M",
    "N", "O", "P", "Q", "R", "S", "T", "U", "V", "W", "X", "Y", "Z",
    "0", "1", "2", "3", "4", "5", "6", "7", "8", "9",
    "!", "@", "#", "$", "%", "^", "&", "*">>

\* the characters of charset that /[a-z]/, /[A-Z]/, /\d/ and the class of
\* hasSpecialChar match
LowercaseChars == {charset[k] : k \in 1..26}
UppercaseChars == {charset[k] : k \in 27..52}
NumberChars == {charset[k] : k \in 53..62}
SpecialChars == {charset[k] : k \in 63..70}

hasUppercase(password) == \E k \in 1..Len(password) : password[k] \in UppercaseChars
hasLowercase(password) == \E k \in 1..Len(password) : password[k] \in LowercaseChars
hasNumber(password) == \E k \in 1..Len(password) : password[k] \in NumberChars
hasSpecialChar(password) == \E k \in 1..Len(password) : password[k] \in SpecialChars

\* password.slice(0, -1) + c
ReplaceLast(password, c) == Append(SubSeq(password, 1, Len(password) - 1), c)

\* generateTemporaryPassword for the bytes randomBytes(12) returned
generateTemporaryPassword(randomBytesBuffer, requireSpecialChars) ==
  LET drawn == [i \in 1..length |->
                  charset[(randomBytesBuffer[i] % Len(charset)) + 1]]
      p1 == IF ~hasUppercase(drawn) THEN ReplaceLast(drawn, "A") ELSE drawn
      p2 == IF ~hasLowercase(p1) THEN ReplaceLast(p1, "a") ELSE p1
      p3 == IF ~hasNumber(p2) THEN ReplaceLast(p2, "1") ELSE p2
      p4 == IF requireSpecialChars /\ ~hasSpecialChar(p3)
            THEN ReplaceLast(p3, "!") ELSE p3
  IN p4

\* bytes that select a lower-case letter, an upper-case letter, a digit, a
\* special character, and the largest byte
ByteSample == {0, 26, 52, 62, 255}

\* the buffers drawn: the last MaxFree bytes are any of the sample, the bytes
\* before them repeat one byte of the sample
RandomBuffers ==
  {[i \in 1..length |-> IF i <= length - MaxFree THEN b ELSE tail[i - (length - MaxFree)]] :
     b \in ByteSample, tail \in [1..MaxFree -> ByteSample]}

InitPassword ==
  /\ now = 0
  /\ ticks = 0
  /\ users = <<>>
  /\ loginKeys = [u \in UserIds |-> NoKey]
  /\ resendKeys = [u \in UserIds |-> NoResend]
  /\ sessions = {}
  /\ refreshKeys = {}
  /\ blacklist = {}
  /\ nextRand = 1
  /\ issued = <<>>
  /\ outbox = {}
  /\ inflight = [r \in Requests |-> Idle]
  /\ \E buf \in RandomBuffers, requireSpecialChars \in BOOLEAN :
       last = Outcome("randomBytes", 0, "ok",
                      [buffer |-> buf, requireSpecialChars |-> requireSpecialChars])

\* a call of generateTemporaryPassword with the buffer drawn
GenerateTemporaryPassword ==
  /\ last.op = "randomBytes"
  /\ last' = Outcome("generateTemporaryPassword", 0, "ok",
                     [password |-> generateTemporaryPassword(
                                     last.info.buffer, last.info.requireSpecialChars),
                      requireSpecialChars |-> last.info.requireSpecialChars])
  /\ UNCHANGED <<now, ticks, users, loginKeys, resendKeys, sessions,
                 refreshKeys, blacklist, nextRand, issued, outbox, inflight>>

NextPassword == GenerateTemporaryPassword

SpecPassword == InitPassword /\ [][NextPassword]_vars

\* C30: the password generateTemporaryPassword returns has 12 characters, at
\* least one upper-case letter, at least one lower-case letter and at least
\* one digit, and at least one special character when requireSpecialChars is
\* set, whatever the 12 bytes drawn.
C30_TemporaryPasswordClasses ==
  last.op = "generateTemporaryPassword" =>
    LET password == last.info.password IN
    /\ Len(password) = length
    /\ hasUppercase(password)
    /\ hasLowercase(password)
    /\ hasNumber(password)
    /\ last.info.requireSpecialChars => hasSpecialChar(password)

\* ------------------------------------------------------------------------
\* loginUser served step by step, several requests in flight
\* ------------------------------------------------------------------------
\* the other variables a step of a request in flight leaves alone
Rest == <<now, ticks, loginKeys, resendKeys, blacklist>>

\* loginUser up to the password comparison: findByEmail and the checks made
\* on the row it returned
LoginUserBegin(r, email, password) ==
  LET uid == findByEmail(email) IN
  /\ inflight[r] = Idle
  /\ IF validateEmail(email) = "" THEN Fail("loginUser", 0, "ValidationError", "")
     ELSE IF uid = 0 THEN Fail("loginUser", 0, "AuthenticationError", "unknown")
     ELSE
       LET user == users[uid]
           pw == IF compare(password, user.password) THEN "correct" ELSE "wrong"
       IN
       IF user.authProvider = "google"
       THEN Fail("loginUser", uid, "AuthenticationError", "google")
       ELSE IF checkAccountStatus(user)
       THEN Fail("loginUser", uid, "AccountLockedError", pw)
       ELSE IF user.password = NoPassword
       THEN Fail("loginUser", uid, "AuthenticationError", "nopassword")
       ELSE /\ inflight' = [inflight EXCEPT ![r] =
                              [op |-> "loginUser",
                               pc |-> IF pw = "wrong" THEN "increment" ELSE "update",
                               uid |-> uid, user |-> user]]
            /\ UNCHANGED <<users, sessions, refreshKeys, nextRand, issued,
                           outbox, last, Rest>>

\* incrementLoginAttempts writing back the count of the row read at the start
LoginUserIncrement_ReadThenWrite(r) ==
  LET req == inflight[r] IN
  /\ req.op = "loginUser" /\ req.pc = "increment"
  /\ req.user.loginAttempts < MaxFailed
  /\ users' = [users EXCEPT ![req.uid].loginAttempts = req.user.loginAttempts + 1]
  /\ inflight' = [inflight EXCEPT ![r].pc = "check"]
  /\ UNCHANGED <<sessions, refreshKeys, nextRand, issued, outbox, last, Rest>>

\* handleFailedLogin, first call: UserRepository.incrementLoginAttempts, one
\* UPDATE ... SET login_attempts = login_attempts + 1
LoginUserIncrement(r) ==
  LET req == inflight[r] IN
  /\ req.op = "loginUser" /\ req.pc = "increment"
  /\ users[req.uid].loginAttempts < MaxFailed
  /\ users' = [users EXCEPT ![req.uid].loginAttempts = @ + 1]
  /\ inflight' = [inflight EXCEPT ![r].pc = "check"]
  /\ UNCHANGED <<sessions, refreshKeys, nextRand, issued, outbox, last, Rest>>

\* handleFailedLogin, the rest: checkLoginAttempts, lockAccount when the rate
\* limiter says locked, and the error thrown
LoginUserCheck(r) ==
  LET req == inflight[r]
      rateLimitCheck == checkLoginAttempts(req.uid, now)
      locked == ~rateLimitCheck.canAttempt /\ rateLimitCheck.lockedUntil # NoTime
  IN
  /\ req.op = "loginUser" /\ req.pc = "check"
  /\ users' = IF locked
              THEN [users EXCEPT ![req.uid].lockedUntil = rateLimitCheck.lockedUntil]
              ELSE users
  /\ last' = Outcome("loginUser", req.uid,
                     IF locked THEN "AccountLockedError" ELSE "AuthenticationError",
                     "wrong")
  /\ inflight' = [inflight EXCEPT ![r] = Idle]
  /\ UNCHANGED <<sessions, refreshKeys, nextRand, issued, outbox, Rest>>

\* loginUser after a matching password: generateTokens, the update of the
\* row, the welcome e-mail decided on the row read at the start
LoginUserComplete(r) ==
  LET req == inflight[r]
      tokens == generateTokens(req.uid, req.user.email)
  IN
  /\ req.op = "loginUser" /\ req.pc = "update"
  /\ Len(issued) < MaxExchanged
  /\ users' = [users EXCEPT ![req.uid] =
                 [@ EXCEPT !.loginAttempts = 0,
                           !.lockedUntil = NoTime,
                           !.refreshToken = tokens.refreshToken,
                           !.hasLoggedIn = TRUE]]
  /\ StoreSessionRecords(tokens)
  /\ issued' = Append(issued, tokens)
  /\ outbox' = IF ~req.user.hasLoggedIn /\ req.user.isEmailVerified
               THEN sendEmailSafe({Mail("welcome", req.uid, NullTok)}, AllUp)
               ELSE outbox
  /\ last' = Returning("loginUser", req.uid, "ok", "correct",
                       sanitizeUser(req.uid, req.user))
  /\ inflight' = [inflight EXCEPT ![r] = Idle]
  /\ UNCHANGED <<nextRand, Rest>>

\* UserRepository.resetLoginAttempts
ResetLoginAttemptsRow(userId) ==
  /\ userId \in Ids
  /\ users' = [users EXCEPT ![userId] =
                 [@ EXCEPT !.loginAttempts = 0, !.lockedUntil = NoTime]]
  /\ last' = Outcome("resetLoginAttempts", userId, "ok", "")
  /\ UNCHANGED <<sessions, refreshKeys, nextRand, issued, outbox, inflight, Rest>>

NextAttempts ==
  \/ RegisterUser("a@x.co", "p1")
  \/ \E r \in Requests : LoginUserBegin(r, "a@x.co", "p2")
  \/ LoginUserBegin(1, "a@x.co", "p1")
  \/ \E r \in Requests : LoginUserIncrement(r)
  \/ \E r \in Requests : LoginUserCheck(r)
  \/ \E r \in Requests : LoginUserComplete(r)
  \/ \E u \in UserIds : ResetLoginAttemptsRow(u)

SpecAttempts == Init /\ [][NextAttempts]_vars

\* the requests that are at the increment of identity i before the step and
\* past it after the step
C31_Incrementing(i) ==
  {r \in Requests : /\ inflight[r].op = "loginUser"
                    /\ inflight[r].pc = "increment"
                    /\ inflight[r].uid = i
                    /\ inflight'[r] # inflight[r]}

\* C31: each loginUser that fails on a wrong password raises the persisted
\* loginAttempts of its identity by exactly one, whatever other logins of the
\* same identity are in flight; no other step changes the counter except a
\* successful login, a successful resetPassword and resetLoginAttempts, which
\* set it to 0.
C31_AttemptsCounted ==
  [][ \A i \in Ids :
        IF C31_Incrementing(i) # {}
        THEN users'[i].loginAttempts = users[i].loginAttempts + 1
        ELSE \/ users'[i].loginAttempts = users[i].loginAttempts
             \/ /\ users'[i].loginAttempts = 0
                /\ last'.uid = i
                /\ last'.outcome = "ok"
                /\ last'.op \in {"loginUser", "resetPassword", "resetLoginAttempts"}
    ]_vars

\* two wrong-password logins of one identity were in flight together and the
\* counter stands at two
C31_Witness ==
  /\ Len(users) = 1
  /\ users[1].loginAttempts = 2
  /\ \E r \in Requests : inflight[r] # Idle /\ inflight[r].pc = "check"
                         /\ inflight[r].user.loginAttempts = 0
  /\ last.op = "loginUser" /\ last.info = "wrong"

\* ------------------------------------------------------------------------
\* registerUser served step by step; the errors leaving the repository
\* ------------------------------------------------------------------------
\* the driver's messages, cut into the pieces String.includes is asked about
DuplicateEmailMessage == <<"duplicate key value violates ", "unique constraint", " users_", "email", "_unique">>
ConnectionLostMessage == <<"connection", " terminated unexpectedly">>
QueryTimeoutMessage == <<"Query ", "timeout">>

includes(message, piece) == \E i \in 1..Len(message) : message[i] = piece

\* UserRepository.sanitizeError: the taxonomy error thrown for a driver error
sanitizeError(message) ==
  IF includes(message, "unique constraint")
  THEN "UniqueConstraintError"
  ELSE IF includes(message, "timeout") \/ includes(message, "connection")
  THEN "DatabaseError"
  ELSE "DatabaseError"

\* the field named by the UniqueConstraintError of sanitizeError
sanitizeErrorField(message) ==
  IF includes(message, "unique constraint")
  THEN IF includes(message, "email") THEN "Email" ELSE "User data"
  ELSE ""

\* what the identity store can answer to a statement
StoreAnswers == {"ok", "error"}

\* a request in flight ends with an error
Abort(r, op, uid, outcome, info) ==
  /\ last' = Outcome(op, uid, outcome, info)
  /\ inflight' = [inflight EXCEPT ![r] = Idle]

\* registerUser up to userRepository.create: the existence check, the
\* password hash, the verification token
RegisterUserBegin(r, email, password) ==
  /\ inflight[r] = Idle
  /\ IF validateEmail(email) = "" THEN Fail("registerUser", 0, "ValidationError", email)
     ELSE IF findByEmail(email) # 0
     THEN Fail("registerUser", findByEmail(email), "ConflictError", email)
     ELSE
       LET verificationToken == RawTok(nextRand)
           row == NewRow(validateEmail(email), hash(password), "local", "", FALSE,
                         hashToken(verificationToken), getTokenExpiry("verification"))
       IN /\ nextRand <= MaxRand
          /\ nextRand' = nextRand + 1
          /\ inflight' = [inflight EXCEPT ![r] =
                            [op |-> "registerUser", pc |-> "create", uid |-> 0,
                             user |-> row, verificationToken |-> verificationToken]]
          /\ UNCHANGED <<users, sessions, refreshKeys, issued, outbox, last, Rest>>

\* create inserting whatever the table already holds
RegisterUserCreate_NoConstraint(r, answer) ==
  LET req == inflight[r] IN
  /\ req.op = "registerUser" /\ req.pc = "create"
  /\ IF answer = "error"
     THEN /\ Abort(r, "registerUser", 0, sanitizeError(ConnectionLostMessage), req.user.email)
          /\ users' = users
     ELSE /\ users' = Append(users, req.user)
          /\ inflight' = [inflight EXCEPT ![r].pc = "tokens", ![r].uid = Len(users) + 1]
          /\ last' = last
  /\ UNCHANGED <<sessions, refreshKeys, nextRand, issued, outbox, Rest>>

\* UserRepository.create: the INSERT under the users_email_unique constraint,
\* its errors passed through sanitizeError
RegisterUserCreate(r, answer) ==
  LET req == inflight[r] IN
  /\ req.op = "registerUser" /\ req.pc = "create"
  /\ IF answer = "error"
     THEN /\ Abort(r, "registerUser", 0, sanitizeError(ConnectionLostMessage), req.user.email)
          /\ users' = users
     ELSE IF \E i \in Ids : users[i].email = req.user.email
     THEN /\ Abort(r, "registerUser", 0, sanitizeError(DuplicateEmailMessage),
                   sanitizeErrorField(DuplicateEmailMessage))
          /\ users' = users
     ELSE /\ users' = Append(users, req.user)
          /\ inflight' = [inflight EXCEPT ![r].pc = "tokens", ![r].uid = Len(users) + 1]
          /\ last' = last
  /\ UNCHANGED <<sessions, refreshKeys, nextRand, issued, outbox, Rest>>

\* where registerUser can fail after the row was created
RegisterFaults == {"none", "issue", "update"}

\* registerUser after create: generateTokens, the update storing the refresh
\* token, the verification e-mail, the result
RegisterUserComplete(r, fault) ==
  LET req == inflight[r]
      tokens == generateTokens(req.uid, req.user.email)
  IN
  /\ req.op = "registerUser" /\ req.pc = "tokens"
  /\ IF fault = "issue"
     THEN /\ Abort(r, "registerUser", req.uid, "InternalError", req.user.email)
          /\ UNCHANGED <<users, sessions, refreshKeys, issued, outbox>>
     ELSE /\ Len(issued) < MaxIssue
          /\ StoreSessionRecords(tokens)
          /\ issued' = Append(issued, tokens)
          /\ IF fault = "update"
             THEN /\ Abort(r, "registerUser", req.uid,
                           sanitizeError(ConnectionLostMessage), req.user.email)
                  /\ UNCHANGED <<users, outbox>>
             ELSE /\ users' = [users EXCEPT ![req.uid].refreshToken = tokens.refreshToken]
                  /\ outbox' = sendEmailSafe({Mail("verification", req.uid,
                                                   req.verificationToken)}, AllUp)
                  /\ last' = Returning("registerUser", req.uid, "ok", req.user.email,
                                       sanitizeUser(req.uid, req.user))
                  /\ inflight' = [inflight EXCEPT ![r] = Idle]
  /\ UNCHANGED <<nextRand, Rest>>

\* the two spellings of one address
RaceEmails == {"a@x.co", "A@X.co"}

NextRegisterRace ==
  \/ \E r \in Requests, e \in RaceEmails, pw \in Passwords : RegisterUserBegin(r, e, pw)
  \/ \E r \in Requests : RegisterUserCreate(r, "ok")
  \/ \E r \in Requests : RegisterUserComplete(r, "none")
  \/ \E pw \in Passwords : LoginUser("a@x.co", pw)

SpecRegisterRace == Init /\ [][NextRegisterRace]_vars

\* the requests whose create is answered in the step
C32_Creating ==
  {r \in Requests : /\ inflight[r].op = "registerUser"
                    /\ inflight[r].pc = "create"
                    /\ inflight'[r] # inflight[r]}

\* C32: when registerUser requests for one e-mail address have all passed
\* the existence check, the unique constraint lets one create succeed: no two
\* identities ever share an address, and a create that finds the address
\* taken fails with UniqueConstraintError, creates nothing and issues no
\* tokens.
C32_OneIdentityPerEmail ==
  /\ [](\A i, j \in Ids : users[i].email = users[j].email => i = j)
  /\ [][ \A r \in C32_Creating :
           (\E i \in Ids : users[i].email = inflight[r].user.email)
             => /\ last'.op = "registerUser"
                /\ last'.outcome = "UniqueConstraintError"
                /\ last'.info = "Email"
                /\ inflight'[r] = Idle
                /\ users' = users
                /\ issued' = issued
                /\ sessions' = sessions /\ refreshKeys' = refreshKeys
                /\ outbox' = outbox
     ]_vars

\* two registrations of one address passed the existence check together; one
\* created the identity and the other was refused by the constraint
C32_Witness ==
  /\ Len(users) = 1
  /\ last.op = "registerUser" /\ last.outcome = "UniqueConstraintError"
  /\ \E r \in Requests : inflight[r] # Idle /\ inflight[r].pc = "tokens"
  /\ issued = <<>>

\* ------------------------------------------------------------------------
\* The calls of the identity store and their timeout
\* ------------------------------------------------------------------------
\* the operations of UserRepository that await through executeWithTimeout
TimedCalls ==
  {"findById", "findByEmail", "update", "findByEmailVerificationToken",
   "findByPasswordResetToken", "findByRefreshToken", "incrementLoginAttempts",
   "resetLoginAttempts", "lockAccount"}

\* create awaits db.transaction directly
RepositoryCalls == TimedCalls \cup {"create"}

\* a driver error sanitizeError has no case for
OtherDriverMessage == <<"relation users does not exist">>

\* the errors the store can raise for a statement
DriverMessages == {DuplicateEmailMessage, ConnectionLostMessage, OtherDriverMessage}

\* a repository operation sends its statement to the store
StoreCall(r, call) ==
  /\ inflight[r] = Idle
  /\ inflight' = [inflight EXCEPT ![r] = [op |-> "store", call |-> call, pc |-> "waiting"]]
  /\ UNCHANGED <<users, sessions, refreshKeys, nextRand, issued, outbox, last, Rest>>

\* the store answers with a result
StoreResult(r) ==
  /\ inflight[r].op = "store"
  /\ last' = Outcome(inflight[r].call, 0, "ok", "")
  /\ inflight' = [inflight EXCEPT ![r] = Idle]
  /\ UNCHANGED <<users, sessions, refreshKeys, nextRand, issued, outbox, Rest>>

\* the store answers with an error: the catch block of the operation
StoreError(r, message) ==
  /\ inflight[r].op = "store"
  /\ last' = Outcome(inflight[r].call, 0, sanitizeError(message), sanitizeErrorField(message))
  /\ inflight' = [inflight EXCEPT ![r] = Idle]
  /\ UNCHANGED <<users, sessions, refreshKeys, nextRand, issued, outbox, Rest>>

\* executeWithTimeout: the timer rejects with 'Query timeout'
StoreTimeout(r) ==
  /\ inflight[r].op = "store"
  /\ inflight[r].call \in TimedCalls
  /\ last' = Outcome(inflight[r].call, 0, sanitizeError(QueryTimeoutMessage), "timeout")
  /\ inflight' = [inflight EXCEPT ![r] = Idle]
  /\ UNCHANGED <<users, sessions, refreshKeys, nextRand, issued, outbox, Rest>>

NextStore ==
  \/ \E r \in Requests, call \in RepositoryCalls : StoreCall(r, call)
  \/ \E r \in Requests : StoreResult(r)
  \/ \E r \in Requests, message \in DriverMessages : StoreError(r, message)
  \/ \E r \in Requests : StoreTimeout(r)

\* the store may never answer; a timer that was set does fire
SpecStore ==
  /\ Init
  /\ [][NextStore]_vars
  /\ \A r \in Requests : WF_vars(StoreTimeout(r))

\* C33: every operation of the identity store terminates: a call that is
\* waiting for the store ends, with DatabaseError after its timeout when the
\* store never answers.
C33_StoreCallsTerminate ==
  \A r \in Requests : (inflight[r].op = "store") ~> (inflight[r] = Idle)

\* ------------------------------------------------------------------------
\* refreshToken served step by step, next to logoutUser
\* ------------------------------------------------------------------------
\* refreshToken up to the update: verifyRefreshToken, findByRefreshToken, the
\* owner check and generateTokens
RefreshTokenLookup(r, refreshToken) ==
  LET uid == refreshTokenUser(refreshToken) IN
  /\ inflight[r] = Idle
  /\ IF uid = 0
     THEN Fail("refreshToken", refreshToken.userId, "InvalidTokenError",
               Presented(refreshToken))
     ELSE LET tokens == generateTokens(uid, users[uid].email)
          IN /\ Len(issued) < MaxExchanged
             /\ StoreSessionRecords(tokens)
             /\ issued' = Append(issued, tokens)
             /\ inflight' = [inflight EXCEPT ![r] =
                               [op |-> "refreshToken", pc |-> "update", uid |-> uid,
                                presented |-> refreshToken, tokens |-> tokens]]
             /\ UNCHANGED <<users, nextRand, outbox, last, Rest>>

\* refreshToken from the update on: the new refresh token is stored and the
\* pair returned
RefreshTokenUpdate(r) ==
  LET req == inflight[r] IN
  /\ req.op = "refreshToken" /\ req.pc = "update"
  /\ users' = [users EXCEPT ![req.uid].refreshToken = req.tokens.refreshToken]
  /\ last' = Outcome("refreshToken", req.uid, "ok", Presented(req.presented))
  /\ inflight' = [inflight EXCEPT ![r] = Idle]
  /\ UNCHANGED <<sessions, refreshKeys, nextRand, issued, outbox, Rest>>

NextRefreshRace ==
  \/ RegisterUser("a@x.co", "p1")
  \/ \E r \in Requests, t \in PresentableJwts : RefreshTokenLookup(r, t)
  \/ \E r \in Requests : RefreshTokenUpdate(r)
  \/ \E u \in UserIds : LogoutUser(u)
  \/ LoginUser("a@x.co", "p1")

SpecRefreshRace == Init /\ [][NextRefreshRace]_vars

\* refreshToken calls alone, for both identities
NextExchange ==
  \/ \E e \in {"a@x.co", "b@x.co"} : RegisterUser(e, "p1")
  \/ \E r \in Requests, t \in PresentableJwts : RefreshTokenLookup(r, t)
  \/ \E r \in Requests : RefreshTokenUpdate(r)

SpecExchange == Init /\ [][NextExchange]_vars

\* the requests whose refreshToken returns its pair in the step
C34_Returning ==
  {r \in Requests : /\ inflight[r].op = "refreshToken"
                    /\ inflight[r].pc = "update"
                    /\ inflight'[r] = Idle}

\* C34: a refresh token is exchanged at most once: a refreshToken call that
\* returns a pair exchanges the token the identity holds at that moment (so
\* no other call has exchanged it before), and the refresh token it returns
\* is the one stored afterwards.
C34_RefreshTokenSingleUse ==
  [][ \A r \in C34_Returning :
        /\ users[inflight[r].uid].refreshToken = inflight[r].presented
        /\ users'[inflight[r].uid].refreshToken = inflight[r].tokens.refreshToken
    ]_vars

\* C35: after logoutUser the stored refresh token of the identity stays
\* empty until a registerUser, loginUser or authenticateWithGoogle succeeds
\* for it: no other step stores a refresh token in a row that holds none.
C35_LoggedOutStaysLoggedOut ==
  [][ \A i \in Ids :
        (users[i].refreshToken = NoJwt /\ users'[i].refreshToken # NoJwt)
          => /\ last'.uid = i
             /\ last'.outcome = "ok"
             /\ last'.op \in {"registerUser", "loginUser", "authenticateWithGoogle"}
    ]_vars

\* ------------------------------------------------------------------------
\* resetPassword and the sessions that are open
\* ------------------------------------------------------------------------
NextResetFrame ==
  \/ \E e \in {"a@x.co", "b@x.co"} : RegisterUser(e, "p1")
  \/ \E e \in {"a@x.co", "b@x.co"} : ForgotPassword(e, "none")
  \/ \E t \in PresentableTokens : ResetPassword(t, "p2")
  \/ \E t \in PresentableJwts : RefreshToken(t)

SpecResetFrame == Init /\ [][NextResetFrame]_vars

\* C36: a successful resetPassword leaves the stored refresh token of every
\* identity and the session records as they were, so each refresh token that
\* refreshToken accepted before the reset is accepted after it.
C36_ResetKeepsSessions ==
  [][ (last'.op = "resetPassword" /\ last'.outcome = "ok")
        => /\ \A i \in Ids : users'[i].refreshToken = users[i].refreshToken
           /\ sessions' = sessions
           /\ refreshKeys' = refreshKeys
           /\ \A t \in IssuedRefresh :
                refreshTokenUser(t) # 0 => refreshTokenUser(t)' = refreshTokenUser(t)
    ]_vars

\* the refresh token issued at registration was exchanged after the
\* password had been reset
C36_Witness ==
  /\ \E i \in Ids : /\ users[i].password = hash("p2")
                    /\ last.uid = i
                    /\ Len(issued) = 2
                    /\ issued[1].refreshToken.userId = i
                    /\ issued[2].refreshToken.userId = i
  /\ last.op = "refreshToken" /\ last.outcome = "ok"

\* ------------------------------------------------------------------------
\* recordFailedLogin served command by command
\* ------------------------------------------------------------------------
\* redis.incr on the login-attempt key: a key that does not exist is created
\* at 1 without expiry
redisIncr(k, t) ==
  IF LiveKey(k, t)
  THEN [k EXCEPT !.count = @ + 1]
  ELSE [count |-> 1, expireAt |-> NoTime]

\* redis.expire on the login-attempt key: no effect on a key that does not
\* exist
redisExpire(k, t, seconds) ==
  IF LiveKey(k, t)
  THEN [k EXCEPT !.expireAt = t + seconds]
  ELSE k

\* recordFailedLogin, first command: redis.incr; the call returns here unless
\* the counter it read is 1
RecordFailedLoginIncr(r, userId) ==
  LET key == redisIncr(loginKeys[userId], now) IN
  /\ inflight[r] = Idle
  /\ redisGetCount(userId, now) < MaxRecorded
  /\ loginKeys' = [loginKeys EXCEPT ![userId] = key]
  /\ IF key.count = 1
     THEN /\ inflight' = [inflight EXCEPT ![r] =
                            [op |-> "recordFailedLogin", pc |-> "expire", uid |-> userId]]
          /\ last' = last
     ELSE /\ inflight' = inflight
          /\ last' = Outcome("recordFailedLogin", userId, "ok", "")
  /\ UNCHANGED <<now, ticks, users, resendKeys, sessions, refreshKeys,
                 blacklist, nextRand, issued, outbox>>

\* recordFailedLogin, second command: redis.expire(key, LOGIN_WINDOW)
RecordFailedLoginExpire(r) ==
  LET req == inflight[r] IN
  /\ req.op = "recordFailedLogin" /\ req.pc = "expire"
  /\ loginKeys' = [loginKeys EXCEPT ![req.uid] = redisExpire(@, now, LOGIN_WINDOW)]
  /\ last' = Outcome("recordFailedLogin", req.uid, "ok", "")
  /\ inflight' = [inflight EXCEPT ![r] = Idle]
  /\ UNCHANGED <<now, ticks, users, resendKeys, sessions, refreshKeys,
                 blacklist, nextRand, issued, outbox>>

\* recordFailedLogin ends between its two commands: the process stops or
\* redis.expire is rejected
RecordFailedLoginInterrupted(r) ==
  LET req == inflight[r] IN
  /\ req.op = "recordFailedLogin" /\ req.pc = "expire"
  /\ last' = Outcome("recordFailedLogin", req.uid, "Error", "expire")
  /\ inflight' = [inflight EXCEPT ![r] = Idle]
  /\ UNCHANGED <<now, ticks, users, loginKeys, resendKeys, sessions, refreshKeys,
                 blacklist, nextRand, issued, outbox>>

NextLimiterSteps ==
  \/ \E dt \in {EMAIL_RESEND_DELAY, LOGIN_WINDOW} : Tick(dt)
  \/ \E r \in Requests, u \in UserIds : RecordFailedLoginIncr(r, u)
  \/ \E r \in Requests : RecordFailedLoginExpire(r)
  \/ \E r \in Requests : RecordFailedLoginInterrupted(r)
  \/ \E u \in UserIds : ResetLoginAttempts(u)
  \/ \E u \in UserIds : CheckLoginAttempts(u)

SpecLimiterSteps == Init /\ [][NextLimiterSteps]_vars

\* the identities a recordFailedLogin call is about to set the expiry for
C37_Expiring ==
  {inflight[r].uid : r \in {q \in Requests : inflight[q].op = "recordFailedLogin"}}

\* C37: a login-attempt counter that exists carries a positive TTL, apart
\* from the moment between the two commands of the call that created it; so
\* a counter at MAX_LOGIN_ATTEMPTS makes checkLoginAttempts answer
\* canAttempt = false.
C37_CounterHasTtl ==
  \A u \in UserIds \ C37_Expiring :
    LiveKey(loginKeys[u], now)
      => /\ redisTtl(u, now) > 0
         /\ (loginKeys[u].count >= MAX_LOGIN_ATTEMPTS
               => ~checkLoginAttempts(u, now).canAttempt)

\* ------------------------------------------------------------------------
\* checkEmailResend served command by command
\* ------------------------------------------------------------------------
\* checkEmailResend, first command: redis.get and the comparison; the call
\* returns here when the delay has not passed
CheckEmailResendGet(r, userId) ==
  LET res == checkEmailResendResult(userId, now) IN
  /\ inflight[r] = Idle
  /\ IF res.canResend
     THEN /\ inflight' = [inflight EXCEPT ![r] =
                            [op |-> "checkEmailResend", pc |-> "set", uid |-> userId]]
          /\ last' = last
     ELSE /\ inflight' = inflight
          /\ last' = Outcome("checkEmailResend", userId, "wait", ToString(res.nextAllowedAt))
  /\ UNCHANGED <<now, ticks, users, loginKeys, resendKeys, sessions, refreshKeys,
                 blacklist, nextRand, issued, outbox>>

\* checkEmailResend, second command: redis.set(key, Date.now(), 'EX', delay)
\* and the answer canResend = true
CheckEmailResendSet(r) ==
  LET req == inflight[r] IN
  /\ req.op = "checkEmailResend" /\ req.pc = "set"
  /\ resendKeys' = [resendKeys EXCEPT ![req.uid] =
                      [ts |-> now, expireAt |-> now + EMAIL_RESEND_DELAY]]
  /\ last' = Outcome("checkEmailResend", req.uid, "canResend", ToString(NoTime))
  /\ inflight' = [inflight EXCEPT ![r] = Idle]
  /\ UNCHANGED <<now, ticks, users, loginKeys, sessions, refreshKeys,
                 blacklist, nextRand, issued, outbox>>

NextCooldownRace ==
  \/ \E dt \in CooldownSteps : Tick(dt)
  \/ \E r \in Requests, u \in UserIds : CheckEmailResendGet(r, u)
  \/ \E r \in Requests : CheckEmailResendSet(r)

SpecCooldownRace == Init /\ [][NextCooldownRace]_vars

\* the requests whose checkEmailResend answers canResend = true in the step
C38_Accepting ==
  {r \in Requests : /\ inflight[r].op = "checkEmailResend"
                    /\ inflight'[r] = Idle}

\* C38: for one identity at most one checkEmailResend answers canResend =
\* true within 60 seconds: when a call answers true, the last call that
\* answered true for the identity did so EMAIL_RESEND_DELAY or more earlier.
C38_OneResendPerDelay ==
  [][ \A r \in C38_Accepting :
        LET accepted == resendKeys[inflight[r].uid]
        IN ~(LiveResend(accepted, now) /\ now - accepted.ts < EMAIL_RESEND_DELAY)
    ]_vars

\* ------------------------------------------------------------------------
\* verifyEmail served step by step; the welcome e-mail
\* ------------------------------------------------------------------------
\* verifyEmail up to the update: findUserByToken
VerifyEmailLookup(r, token) ==
  LET found == findUserByToken(token, "verification") IN
  /\ inflight[r] = Idle
  /\ IF found.error # ""
     THEN Fail("verifyEmail", 0, found.error, "")
     ELSE /\ inflight' = [inflight EXCEPT ![r] =
                            [op |-> "verifyEmail", pc |-> "update",
                             uid |-> found.uid, user |-> users[found.uid]]]
          /\ UNCHANGED <<users, sessions, refreshKeys, nextRand, issued,
                         outbox, last, Rest>>

\* verifyEmail from the update on; the welcome e-mail is decided on the row
\* that findUserByToken returned
VerifyEmailUpdate(r) ==
  LET req == inflight[r] IN
  /\ req.op = "verifyEmail" /\ req.pc = "update"
  /\ users' = [users EXCEPT ![req.uid] =
                 [@ EXCEPT !.isEmailVerified = TRUE,
                           !.emailVerificationToken = NullTok,
                           !.emailVerificationExpires = NoTime]]
  /\ outbox' = IF req.user.hasLoggedIn
               THEN sendEmailSafe({Mail("welcome", req.uid, NullTok)}, AllUp)
               ELSE outbox
  /\ last' = Outcome("verifyEmail", req.uid, "ok", "")
  /\ inflight' = [inflight EXCEPT ![r] = Idle]
  /\ UNCHANGED <<sessions, refreshKeys, nextRand, issued, Rest>>

\* the row a request read makes it send the welcome e-mail when it completes
SendsWelcome(req) ==
  \/ req.op = "loginUser" /\ req.pc = "update"
       /\ ~req.user.hasLoggedIn /\ req.user.isEmailVerified
  \/ req.op = "verifyEmail" /\ req.pc = "update" /\ req.user.hasLoggedIn

NextWelcome ==
  \/ RegisterUser("a@x.co", "p1")
  \/ \E r \in Requests : LoginUserBegin(r, "a@x.co", "p1")
  \/ \E r \in Requests : LoginUserComplete(r)
  \/ \E r \in Requests, t \in PresentableTokens : VerifyEmailLookup(r, t)
  \/ \E r \in Requests : VerifyEmailUpdate(r)
  \/ \E u \in UserIds : ResendVerificationEmail(u)

SpecWelcome == Init /\ [][NextWelcome]_vars

\* the requests that dispatch the welcome e-mail in the step
C39_Dispatching ==
  {r \in Requests : /\ inflight[r] # Idle
                    /\ SendsWelcome(inflight[r])
                    /\ inflight'[r] = Idle}

\* C39: the welcome e-mail is dispatched at most once per identity and only
\* to an identity that is e-mail-verified and has logged in: a request that
\* dispatches it finds no welcome e-mail sent to the identity before, and
\* leaves the identity verified and logged in.
C39_WelcomeOnce ==
  [][ \A r \in C39_Dispatching :
        LET i == inflight[r].uid IN
        /\ Mail("welcome", i, NullTok) \notin outbox
        /\ users'[i].isEmailVerified
        /\ users'[i].hasLoggedIn
    ]_vars

\* ------------------------------------------------------------------------
\* registerUser failing after its existence check
\* ------------------------------------------------------------------------
NextRegisterFault ==
  \/ \E r \in Requests, e \in {"a@x.co", "b@x.co"} : RegisterUserBegin(r, e, "p1")
  \/ \E r \in Requests, answer \in StoreAnswers : RegisterUserCreate(r, answer)
  \/ \E r \in Requests, fault \in RegisterFaults : RegisterUserComplete(r, fault)

SpecRegisterFault == Init /\ [][NextRegisterFault]_vars

\* the requests whose registerUser ends with an error in the step
C40_Failing ==
  {r \in Requests : /\ inflight[r].op = "registerUser"
                    /\ inflight'[r] = Idle
                    /\ last'.outcome # "ok"}

\* C40: registerUser is all-or-nothing towards the identity store: when it
\* fails after its existence check, at create, at the token issuance or at
\* the update that stores the refresh token, no identity with its address
\* is left by it, so the registration can be repeated.
C40_RegisterAllOrNothing ==
  [][ \A r \in C40_Failing :
        IF inflight[r].uid = 0
        THEN users' = users
        ELSE \A i \in 1..Len(users') : users'[i].email # inflight[r].user.email
    ]_vars
====
